---- MODULE Spec2Model ----
(***************************************************************************)
(* Model of the MygramDB client (src/native/src/mygramclient.cpp):         *)
(* the connection lifecycle of MygramClient::Impl, SendCommand, and the    *)
(* facade operations that build a command line, exchange it with the       *)
(* server and parse the response.                                          *)
(*                                                                         *)
(* Text (std::string) is a sequence of one-character strings, so that      *)
(* find(), substr(), stream extraction and the numeric conversions are     *)
(* computed character by character as the code computes them.              *)
(***************************************************************************)
EXTENDS Integers, Sequences, FiniteSets, TLC

\* ------------------------------------------------------------------ bounds

\* File descriptors socket() can hand out are 0..MaxFd.
MaxFd == 1
\* Commands sent on one connection whose replies were not read: SendCommand
\* is explored while fewer than MaxOutstanding are unread.
MaxOutstanding == 2
\* largest of the small receive buffers
MaxBuffer == 6

\* ------------------------------------------------------- program constants

kErrorPrefixLen == 6
kSavedPrefixLen == 9
kLoadedPrefixLen == 10
\* config_c.recv_buffer_size set by the binding's CreateClient
RecvBufferSize == 65536

\* ------------------------------------------------------------ text helpers

Min(a, b) == IF a < b THEN a ELSE b

Take(s, n) == SubSeq(s, 1, Min(n, Len(s)))

\* s.find(p) == 0
StartsWith(s, p) == Len(s) >= Len(p) /\ SubSeq(s, 1, Len(p)) = p

\* s.find(p) != npos
RECURSIVE Contains(_, _)
Contains(s, p) ==
  IF Len(s) < Len(p) THEN FALSE
  ELSE StartsWith(s, p) \/ Contains(Tail(s), p)

\* std::string::substr(pos): throws std::out_of_range when pos > size()
SubstrThrows(s, pos) == pos > Len(s)
Substr(s, pos) == SubSeq(s, pos + 1, Len(s))

\* index (0-based) of the first occurrence of character c in s, or -1 (npos)
RECURSIVE FindFrom(_, _, _)
FindFrom(s, c, i) ==
  IF i > Len(s) THEN -1
  ELSE IF s[i] = c THEN i - 1
  ELSE FindFrom(s, c, i + 1)
FindChar(s, c) == FindFrom(s, c, 1)

\* the whitespace of std::isspace in the "C" locale that the alphabet holds
IsSpace(c) == c \in {" ", "\t", "\n", "\r"}

Digits == <<"0","1","2","3","4","5","6","7","8","9">>
IsDigit(c) == \E d \in 1..10 : Digits[d] = c
DigitVal(c) == (CHOOSE d \in 1..10 : Digits[d] = c) - 1

\* operator<<(ostream&, uint32_t): decimal text of n
RECURSIVE ToDecimal(_)
ToDecimal(n) ==
  IF n < 10 THEN <<Digits[n + 1]>>
  ELSE ToDecimal(n \div 10) \o <<Digits[(n % 10) + 1]>>

\* ----------------------------------------------------------- message texts

AlreadyConnected == <<"A","l","r","e","a","d","y"," ","c","o","n","n","e","c","t","e","d">>
FailedToCreateSocket == <<"F","a","i","l","e","d"," ","t","o"," ","c","r","e","a","t","e"," ","s","o","c","k","e","t",":"," ">>
InvalidAddress == <<"I","n","v","a","l","i","d"," ","a","d","d","r","e","s","s",":"," ">>
ConnectionFailed == <<"C","o","n","n","e","c","t","i","o","n"," ","f","a","i","l","e","d",":"," ">>
NotConnected == <<"N","o","t"," ","c","o","n","n","e","c","t","e","d">>
FailedToSend == <<"F","a","i","l","e","d"," ","t","o"," ","s","e","n","d"," ","c","o","m","m","a","n","d",":"," ">>
ConnectionClosed == <<"C","o","n","n","e","c","t","i","o","n"," ","c","l","o","s","e","d"," ","b","y"," ","s","e","r","v","e","r">>
FailedToReceive == <<"F","a","i","l","e","d"," ","t","o"," ","r","e","c","e","i","v","e"," ","r","e","s","p","o","n","s","e",":"," ">>
UnexpectedFormat == <<"U","n","e","x","p","e","c","t","e","d"," ","r","e","s","p","o","n","s","e"," ","f","o","r","m","a","t">>
CRLF == <<"\r","\n">>

\* strerror(errno) for the errno values the syscalls of the model produce
strerror(e) ==
  CASE e = "EMFILE"       -> <<"T","o","o"," ","m","a","n","y"," ","o","p","e","n"," ","f","i","l","e","s">>
    [] e = "ECONNREFUSED" -> <<"C","o","n","n","e","c","t","i","o","n"," ","r","e","f","u","s","e","d">>
    [] e = "ETIMEDOUT"    -> <<"C","o","n","n","e","c","t","i","o","n"," ","t","i","m","e","d"," ","o","u","t">>
    [] e = "EPIPE"        -> <<"B","r","o","k","e","n"," ","p","i","p","e">>
    [] e = "EBADF"        -> <<"B","a","d"," ","f","i","l","e"," ","d","e","s","c","r","i","p","t","o","r">>
    [] e = "EAGAIN"       -> <<"R","e","s","o","u","r","c","e"," ","t","e","m","p","o","r","a","r","i","l","y"," ","u","n","a","v","a","i","l","a","b","l","e">>
    [] e = "EFAULT"       -> <<"B","a","d"," ","a","d","d","r","e","s","s">>

\* -------------------------------------------------------------------- state

VARIABLES
  alive,       \* the MygramClient object (and its Impl) exists
  config_,     \* Impl::config_ : ClientConfig, fixed at construction
  sock_,       \* Impl::sock_ : -1, or the descriptor of the client's socket
  last_error_, \* Impl::last_error_
  openFds,     \* descriptors the operating system holds open for the client
  badClose,    \* a close() was issued on a descriptor that was not open
  outstanding, \* commands sent on the connection whose reply was not read
  peerOpen,    \* the server has not closed its side of the connection
  ret          \* what the latest call did and returned

vars == <<alive, config_, sock_, last_error_, openFds, badClose, outstanding,
          peerOpen, ret>>

Fds == 0..MaxFd

\* hosts a ClientConfig can name; inet_pton accepts only IPv4 literals
LocalhostIp == <<"1","2","7",".","0",".","0",".","1">>
LocalhostName == <<"l","o","c","a","l","h","o","s","t">>
Hosts == {LocalhostIp, LocalhostName}
inet_pton(host) == IF host = LocalhostIp THEN 1 ELSE 0

Configs == [host : Hosts, recv_buffer_size : {RecvBufferSize}]

\* the record of a call: its outcome and the syscalls it made
\*   kind   "ok" (a success value), "error" (an error value), "throw" (an
\*          exception left the call), "none" (no call yet)
\*   err    the message of the returned error
\*   val    the returned success value
\*   exc    the exception that left the call
\*   line   the bytes SendCommand built for send(): the command and CR LF
\*   lag    how many commands before this one the reply it read belongs to
\*   outside  recv() was given more room than the buffer has and used it
\*   resp   the response text SendCommand returned to the operation
\*          (gotResp: it returned one)
\*   sent   the bytes the call put on the connection
\*   sends, recvs, closes   the send(), recv() and close() calls it issued
\*   opens  the sockets socket() gave it
\*   again  the call is a Disconnect that directly follows a Disconnect
Call(op, kind, err, val, exc, resp, gotResp, sent, sends, recvs, opens, closes) ==
  [op |-> op, kind |-> kind, err |-> err, val |-> val, exc |-> exc,
   resp |-> resp, gotResp |-> gotResp, sent |-> sent,
   sends |-> sends, recvs |-> recvs, opens |-> opens, closes |-> closes,
   again |-> (op = "Disconnect" /\ ret.op = "Disconnect"),
   line |-> <<>>, lag |-> 0, outside |-> FALSE]

NoVal == <<>>
NoCall ==
  [op |-> "none", kind |-> "none", err |-> <<>>, val |-> NoVal, exc |-> "",
   resp |-> <<>>, gotResp |-> FALSE, sent |-> <<>>,
   sends |-> 0, recvs |-> 0, opens |-> 0, closes |-> 0, again |-> FALSE,
   line |-> <<>>, lag |-> 0, outside |-> FALSE]
\* a call that touches no socket data: Connect, Disconnect, construction
Lifecycle(op, kind, err, opens, closes) ==
  Call(op, kind, err, NoVal, "", <<>>, FALSE, <<>>, 0, 0, opens, closes)

Init ==
  /\ alive = TRUE
  /\ config_ \in Configs
  /\ sock_ = -1
  /\ last_error_ = <<>>
  /\ openFds = {}
  /\ badClose = FALSE
  /\ outstanding = 0
  /\ peerOpen = FALSE
  /\ ret = NoCall

\* --------------------------------------------------------------- lifecycle

IsConnected == sock_ >= 0

\* Impl::GetLastError
GetLastError == last_error_

\* close(fd) on the descriptor table `open`: releases fd; on a descriptor
\* that is not open it is an error (EBADF)
close(open, fd) == [open |-> open \ {fd}, bad |-> fd \notin open]

\* ConnectAlready with the test of sock_ taken for a success
ConnectAlreadyAccepted ==
  /\ sock_ >= 0
  /\ ret' = Lifecycle("Connect", "ok", <<>>, 0, 0)
  /\ UNCHANGED <<sock_, last_error_, openFds, badClose, outstanding, peerOpen>>

\* Impl::Connect, sock_ >= 0 on entry
ConnectAlready ==
  /\ sock_ >= 0
  /\ ret' = Lifecycle("Connect", "error", AlreadyConnected, 0, 0)
  /\ UNCHANGED <<sock_, last_error_, openFds, badClose, outstanding, peerOpen>>

\* Impl::Connect, socket() returns -1
ConnectSocketFails ==
  /\ ~(sock_ >= 0)
  /\ sock_' = -1
  /\ last_error_' = FailedToCreateSocket \o strerror("EMFILE")
  /\ ret' = Lifecycle("Connect", "error", last_error_', 0, 0)
  /\ UNCHANGED <<openFds, badClose, outstanding, peerOpen>>

\* Impl::Connect, socket() returns fd and inet_pton rejects the host
ConnectInvalidAddress(fd) ==
  /\ ~(sock_ >= 0)
  /\ inet_pton(config_.host) <= 0
  /\ last_error_' = InvalidAddress \o config_.host
  /\ LET c == close(openFds \cup {fd}, fd)
     IN  openFds' = c.open /\ badClose' = (badClose \/ c.bad)
  /\ sock_' = -1
  /\ ret' = Lifecycle("Connect", "error", last_error_', 1, 1)
  /\ UNCHANGED <<outstanding, peerOpen>>

\* errno of a connect() that fails: refused, or timed out
ConnectErrnos == {"ECONNREFUSED", "ETIMEDOUT"}

\* ConnectFails without the close(sock_) of the failure path
ConnectFailsLeaking(fd) ==
  /\ ~(sock_ >= 0)
  /\ ~(inet_pton(config_.host) <= 0)
  /\ \E e \in ConnectErrnos : last_error_' = ConnectionFailed \o strerror(e)
  /\ openFds' = openFds \cup {fd}
  /\ sock_' = -1
  /\ ret' = Lifecycle("Connect", "error", last_error_', 1, 0)
  /\ UNCHANGED <<badClose, outstanding, peerOpen>>

\* Impl::Connect, socket() returns fd and connect() fails
ConnectFails(fd) ==
  /\ ~(sock_ >= 0)
  /\ ~(inet_pton(config_.host) <= 0)
  /\ \E e \in ConnectErrnos : last_error_' = ConnectionFailed \o strerror(e)
  /\ LET c == close(openFds \cup {fd}, fd)
     IN  openFds' = c.open /\ badClose' = (badClose \/ c.bad)
  /\ sock_' = -1
  /\ ret' = Lifecycle("Connect", "error", last_error_', 1, 1)
  /\ UNCHANGED <<outstanding, peerOpen>>

\* Impl::Connect, socket() returns fd and connect() succeeds
ConnectOk(fd) ==
  /\ ~(sock_ >= 0)
  /\ ~(inet_pton(config_.host) <= 0)
  /\ sock_' = fd
  /\ openFds' = openFds \cup {fd}
  /\ outstanding' = 0
  /\ peerOpen' = TRUE
  /\ ret' = Lifecycle("Connect", "ok", <<>>, 1, 0)
  /\ UNCHANGED <<last_error_, badClose>>

Connect ==
  /\ alive
  /\ UNCHANGED <<alive, config_>>
  /\ \/ ConnectAlready
     \/ ConnectSocketFails
     \/ \E fd \in Fds \ openFds :
          \/ ConnectInvalidAddress(fd)
          \/ ConnectFails(fd)
          \/ ConnectOk(fd)

\* DoDisconnect without the test of sock_: close(sock_) is issued always
DoDisconnectUnguarded ==
  /\ LET c == close(openFds, sock_)
     IN  openFds' = c.open /\ badClose' = (badClose \/ c.bad)
  /\ sock_' = -1
  /\ outstanding' = 0
  /\ peerOpen' = FALSE

\* DoDisconnect without the reset of sock_ to -1
DoDisconnectKeepingSock ==
  IF sock_ >= 0
  THEN /\ LET c == close(openFds, sock_)
          IN  openFds' = c.open /\ badClose' = (badClose \/ c.bad)
       /\ outstanding' = 0
       /\ peerOpen' = FALSE
       /\ UNCHANGED sock_
  ELSE UNCHANGED <<sock_, openFds, badClose, outstanding, peerOpen>>

\* the body of Impl::Disconnect
DoDisconnect ==
  IF sock_ >= 0
  THEN /\ LET c == close(openFds, sock_)
          IN  openFds' = c.open /\ badClose' = (badClose \/ c.bad)
       /\ sock_' = -1
       /\ outstanding' = 0
       /\ peerOpen' = FALSE
  ELSE UNCHANGED <<sock_, openFds, badClose, outstanding, peerOpen>>

\* close() calls Impl::Disconnect issues from the current state
DisconnectCloses == IF sock_ >= 0 THEN 1 ELSE 0

Disconnect ==
  /\ alive
  /\ DoDisconnect
  /\ ret' = Lifecycle("Disconnect", "ok", <<>>, 0, DisconnectCloses)
  /\ UNCHANGED <<alive, config_, last_error_>>

\* ~MygramClient: the unique_ptr destroys Impl, whose destructor disconnects
Destroy ==
  /\ alive
  /\ DoDisconnect
  /\ alive' = FALSE
  /\ ret' = Lifecycle("Destroy", "ok", <<>>, 0, DisconnectCloses)
  /\ UNCHANGED <<config_, last_error_>>

\* MygramClient::MygramClient(ClientConfig)
Construct ==
  /\ ~alive
  /\ alive' = TRUE
  /\ config_' \in Configs
  /\ sock_' = -1
  /\ last_error_' = <<>>
  /\ ret' = Lifecycle("Construct", "ok", <<>>, 0, 0)
  /\ UNCHANGED <<openFds, badClose, outstanding, peerOpen>>

\* ------------------------------------------------------------- SendCommand

\* what the server can put on the wire as one reply, CRLF-terminated
ResponseTexts ==
  { <<"E","R","R","O","R"," ","n","o"," ","s","u","c","h"," ","t","a","b","l","e">>,
    <<"E","R","R","O","R">>,
    <<"O","K"," ","R","E","S","U","L","T","S"," ","2"," ","x","1"," ","x","2">>,
    <<"O","K"," ","R","E","S","U","L","T","S"," ","1"," ","x","1"," ","D","E","B","U","G"," ","q","u","e","r","y","_","t","i","m","e","=","1",".","5"," ","t","e","r","m","s","=","3">>,
    <<"O","K"," ","R","E","S","U","L","T","S"," ","1"," ","x","1"," ","D","E","B","U","G"," ","t","e","r","m","s","=","a","b","c">>,
    <<"O","K"," ","R","E","S","U","L","T","S">>,
    <<"O","K"," ","R","E","S","U","L","T","S"," ","a","b","c"," ","x","1">>,
    <<"O","K"," ","C","O","U","N","T"," ","5">>,
    <<"O","K"," ","C","O","U","N","T"," ","5"," ","D","E","B","U","G"," ","f","i","n","a","l","=","7">>,
    <<"O","K"," ","C","O","U","N","T">>,
    <<"O","K"," ","C","O","U","N","T"," ","x">>,
    <<"O","K"," ","D","O","C"," ","p","k"," ","a","=","1"," ","a","=","2">>,
    <<"O","K"," ","I","N","F","O","\r","\n","v","e","r","s","i","o","n",":"," ","1",".","0","\r","\n","u","p","t","i","m","e","_","s","e","c","o","n","d","s",":"," ","5","\r","\n","t","a","b","l","e","s",":"," ","a",",",",","b">>,
    <<"O","K"," ","I","N","F","O","\r","\n","u","p","t","i","m","e","_","s","e","c","o","n","d","s",":"," ","a","b","c">>,
    <<"O","K"," ","S","A","V","E","D"," ","/","t","m","p","/","a"," ","b">>,
    <<"O","K"," ","S","A","V","E","D">>,
    <<"O","K"," ","L","O","A","D","E","D"," ","/","t","m","p","/","a">>,
    <<"O","K"," ","L","O","A","D","E","D">>,
    <<"O","K"," ","R","E","P","L","I","C","A","T","I","O","N"," ","s","t","a","t","u","s","=","r","u","n","n","i","n","g"," ","g","t","i","d","=","g","1">>,
    <<"O","K"," ","D","E","B","U","G","_","O","N">> }

WireReplies == { t \o CRLF : t \in ResponseTexts }

\* the loop that pops trailing '\n' and '\r' off the response
RECURSIVE StripTrailing(_)
StripTrailing(s) ==
  IF s # <<>> /\ (s[Len(s)] = "\n" \/ s[Len(s)] = "\r")
  THEN StripTrailing(SubSeq(s, 1, Len(s) - 1))
  ELSE s

\* recv(sock_, buffer.data(), buffer.size() - 1, 0) when `wire` is readable,
\* for a buffer of `size` bytes: the bytes placed in the buffer
recv(wire, size) == Take(wire, size - 1)

\* std::string response(buffer.data(), received) with its trailing CR and LF
\* removed, for a buffer of `size` bytes and the reply `wire`
ResponseOf(wire, size) == StripTrailing(recv(wire, size))

\* the buffer sizes of the configurations of the model
BufferSizes == (0..MaxBuffer) \cup {RecvBufferSize}

\* what one recv() into a buffer of `size` bytes makes of each reply: the
\* response, and whether bytes of the reply stay unread on the socket
Deliveries ==
  [size \in BufferSizes |->
     { [response |-> ResponseOf(w, size), rest |-> Len(w) > size - 1] :
         w \in WireReplies }]

\* the responses SendCommand can return, by buffer size
Responses == [size \in BufferSizes |-> { d.response : d \in Deliveries[size] }]

\* An outcome of SendCommand: the variant it returns (isErr, err | response),
\* the new values of last_error_, outstanding and peerOpen, the bytes the
\* socket accepted and the number of send() and recv() calls made.
Outcome(isErr, err, response, lastErr, outst, peer, sent, sends, recvs) ==
  [isErr |-> isErr, err |-> err, response |-> response, last_error |-> lastErr,
   outstanding |-> outst, peerOpen |-> peer, sent |-> sent,
   sends |-> sends, recvs |-> recvs, line |-> <<>>, lag |-> 0,
   outside |-> FALSE]

\* SendNotConnected without the test of IsConnected(): send() is called on
\* sock_ = -1 and fails
SendUnchecked ==
  LET e == FailedToSend \o strerror("EBADF")
  IN  { Outcome(TRUE, e, <<>>, e, outstanding, peerOpen, <<>>, 1, 0) }

\* !IsConnected(): "Not connected"
SendNotConnected ==
  { Outcome(TRUE, NotConnected, <<>>, NotConnected, outstanding, peerOpen,
            <<>>, 0, 0) }

\* send() returns -1
SendFails ==
  LET e == FailedToSend \o strerror("EPIPE")
  IN  { Outcome(TRUE, e, <<>>, e, outstanding, peerOpen, <<>>, 1, 0) }

\* send() succeeds, recv() returns -1 (timeout or error): the command stays
\* unanswered on the connection
RecvFails(msg) ==
  LET e == FailedToReceive \o strerror("EAGAIN")
  IN  { Outcome(TRUE, e, <<>>, e, outstanding + 1, peerOpen, msg, 1, 1) }

\* send() succeeds, recv() returns 0: the server closed the connection
RecvClosed(msg) ==
  { Outcome(TRUE, ConnectionClosed, <<>>, ConnectionClosed,
            outstanding + 1, FALSE, msg, 1, 1) }

\* RecvData that clears last_error_ on success
RecvDataClearingError(msg) ==
  IF peerOpen
  THEN { [Outcome(FALSE, <<>>, d.response, <<>>,
                  outstanding + (IF d.rest THEN 1 ELSE 0), peerOpen, msg, 1, 1)
            EXCEPT !.lag = outstanding] :
           d \in Deliveries[config_.recv_buffer_size] }
  ELSE {}

\* send() succeeds, recv() returns the oldest unread bytes of the connection:
\* those of this command's reply when nothing is unread, of the reply to an
\* earlier command otherwise; what the buffer has no room for stays unread
RecvData(msg) ==
  IF peerOpen
  THEN { [Outcome(FALSE, <<>>, d.response, last_error_,
                  outstanding + (IF d.rest THEN 1 ELSE 0), peerOpen, msg, 1, 1)
            EXCEPT !.lag = outstanding] :
           d \in Deliveries[config_.recv_buffer_size] }
  ELSE {}

\* a buffer of one byte: recv(sock_, buffer.data(), 0, 0) returns 0 with the
\* reply left unread and the server still there
RecvZeroLength(msg) ==
  IF peerOpen
  THEN { Outcome(TRUE, ConnectionClosed, <<>>, ConnectionClosed,
                 outstanding + 1, peerOpen, msg, 1, 1) }
  ELSE {}

\* a buffer of no bytes: buffer.size() - 1 wraps to the largest size_t and
\* recv() is given that length with the data pointer of an empty vector.
\* Either the kernel refuses the address, or the reply is written where the
\* pointer points, outside the buffer, as is buffer[received].
RecvOutside(msg) ==
  LET e == FailedToReceive \o strerror("EFAULT")
  IN  { Outcome(TRUE, e, <<>>, e, outstanding + 1, peerOpen, msg, 1, 1) }
      \cup (IF peerOpen
            THEN { [Outcome(FALSE, <<>>, StripTrailing(w), last_error_,
                            outstanding, peerOpen, msg, 1, 1)
                      EXCEPT !.lag = outstanding, !.outside = TRUE] :
                     w \in WireReplies }
            ELSE {})

\* what follows a send() that took the whole line
Received(msg) ==
  RecvFails(msg) \cup RecvClosed(msg)
  \cup (CASE config_.recv_buffer_size = 0 -> RecvOutside(msg)
          [] config_.recv_buffer_size = 1 -> RecvZeroLength(msg)
          [] OTHER -> RecvData(msg))

\* the numbers of bytes a send() that stops early can have taken
PartialCounts(msg) == {1, Len(msg) - 1}

\* send() returns fewer bytes than the line has (0 <= sent < length passes
\* the test sent < 0): recv() is called all the same, and no reply to the
\* unfinished line comes
SendShort(msg) ==
  { [o EXCEPT !.sent = Take(msg, k)] :
      k \in PartialCounts(msg), o \in RecvFails(msg) \cup RecvClosed(msg) }

\* Impl::SendCommand(command): every outcome the call can have
SendCommandOutcomes(command) ==
  IF ~IsConnected
  THEN SendNotConnected
  ELSE LET msg == command \o CRLF
       IN  { [o EXCEPT !.line = msg] :
               o \in SendFails \cup Received(msg) \cup SendShort(msg) }

\* SendCommand is explored while the connection has room for one more
\* unanswered command
CanSend == ~IsConnected \/ outstanding < MaxOutstanding

\* Apply for a SendCommand that closes the socket when send() or recv() failed
ApplyClosingOnFailure(o) ==
  /\ last_error_' = o.last_error
  /\ outstanding' = IF o.isErr /\ o.sends > 0 THEN 0 ELSE o.outstanding
  /\ peerOpen' = IF o.isErr /\ o.sends > 0 THEN FALSE ELSE o.peerOpen
  /\ sock_' = IF o.isErr /\ o.sends > 0 THEN -1 ELSE sock_
  /\ openFds' = IF o.isErr /\ o.sends > 0 THEN openFds \ {sock_} ELSE openFds
  /\ UNCHANGED <<alive, config_, badClose>>

\* the state a call of SendCommand with outcome o leaves
Apply(o) ==
  /\ last_error_' = o.last_error
  /\ outstanding' = o.outstanding
  /\ peerOpen' = o.peerOpen
  /\ UNCHANGED <<alive, config_, sock_, openFds, badClose>>

Returned(op, o, kind, err, val, exc) ==
  [Call(op, kind, err, val, exc, o.response, ~o.isErr, o.sent,
        o.sends, o.recvs, 0, 0)
     EXCEPT !.line = o.line, !.lag = o.lag, !.outside = o.outside]

\* MygramClient::SendCommand, the raw escape hatch
RawCommands == { <<"P","I","N","G">> }

SendCommand ==
  /\ alive /\ CanSend
  /\ \E command \in RawCommands : \E o \in SendCommandOutcomes(command) :
       /\ Apply(o)
       /\ ret' = IF o.isErr
                 THEN Returned("SendCommand", o, "error", o.err, NoVal, "")
                 ELSE Returned("SendCommand", o, "ok", <<>>, o.response, "")

\* ------------------------------------------------------- stream extraction

\* std::istringstream: the unread characters and the fail state
Stream(s) == [buf |-> s, fail |-> FALSE]
Failed(st) == [buf |-> st.buf, fail |-> TRUE]

RECURSIVE SkipWs(_)
SkipWs(s) == IF s # <<>> /\ IsSpace(s[1]) THEN SkipWs(Tail(s)) ELSE s

\* length of the longest prefix of s free of whitespace
RECURSIVE WordLen(_)
WordLen(s) == IF s = <<>> \/ IsSpace(s[1]) THEN 0 ELSE 1 + WordLen(Tail(s))

\* length of the longest prefix of s made of decimal digits
RECURSIVE DigitsLen(_)
DigitsLen(s) == IF s = <<>> \/ ~IsDigit(s[1]) THEN 0 ELSE 1 + DigitsLen(Tail(s))

\* the number a non-empty digit sequence denotes
RECURSIVE DecimalValue(_)
DecimalValue(s) ==
  IF s = <<>> THEN 0
  ELSE 10 * DecimalValue(SubSeq(s, 1, Len(s) - 1)) + DigitVal(s[Len(s)])

\* iss >> token (std::string): skips whitespace, reads up to the next
\* whitespace; at end of input the stream fails and the string is untouched
ReadWord(st) ==
  IF st.fail THEN [tok |-> <<>>, st |-> st]
  ELSE LET s == SkipWs(st.buf)
           n == WordLen(s)
       IN  IF n = 0 THEN [tok |-> <<>>, st |-> Failed(st)]
           ELSE [tok |-> SubSeq(s, 1, n), st |-> Stream(Substr(s, n))]

\* while (iss >> token) tokens.push_back(token)
\* (r ranges over a one-element set so that each extraction is evaluated once)
RECURSIVE ReadWords(_)
ReadWords(st) ==
  CHOOSE tokens \in
    { IF r.st.fail THEN <<>> ELSE <<r.tok>> \o ReadWords(r.st) :
        r \in {ReadWord(st)} } : TRUE

\* iss >> n (uint64_t, initialised to 0): skips whitespace, reads the digits;
\* with no digit to read the stream fails and n is 0
ReadU64(st) ==
  IF st.fail THEN [val |-> 0, st |-> st]
  ELSE LET s == SkipWs(st.buf)
           n == DigitsLen(s)
       IN  IF n = 0 THEN [val |-> 0, st |-> Failed(st)]
           ELSE [val |-> DecimalValue(SubSeq(s, 1, n)),
                 st |-> Stream(Substr(s, n))]

\* std::getline(iss, line, delim): the characters up to delim, which is
\* consumed; fails when nothing is left to read
ReadLine(st, delim) ==
  IF st.fail \/ st.buf = <<>> THEN [line |-> <<>>, st |-> Failed(st)]
  ELSE LET p == FindChar(st.buf, delim)
       IN  IF p < 0 THEN [line |-> st.buf, st |-> Stream(<<>>)]
           ELSE [line |-> SubSeq(st.buf, 1, p), st |-> Stream(Substr(st.buf, p + 1))]

\* std::stoull / std::stoul (base 10): leading whitespace is skipped, the
\* digit prefix is converted; std::invalid_argument with no digit
stoull(value) ==
  LET s == SkipWs(value)
      n == DigitsLen(s)
  IN  IF n = 0 THEN [throws |-> TRUE, val |-> 0]
      ELSE [throws |-> FALSE, val |-> DecimalValue(SubSeq(s, 1, n))]

\* std::stod: digits with an optional fraction; the double is held as
\* <<m, k>> for m * 10^-k; std::invalid_argument with no digit
stod(value) ==
  LET s == SkipWs(value)
      n == DigitsLen(s)
      frac == IF Len(s) > n /\ s[n + 1] = "." THEN Substr(s, n + 1) ELSE <<>>
      k == DigitsLen(frac)
  IN  IF n + k = 0 THEN [throws |-> TRUE, val |-> <<0, 0>>]
      ELSE [throws |-> FALSE,
            val |-> <<DecimalValue(SubSeq(s, 1, n) \o SubSeq(frac, 1, k)), k>>]

\* static_cast<uint32_t>(n): n itself for every n below 2^32, which holds of
\* every number the replies of the model carry
U32(n) == n

\* ------------------------------------------------------ key=value parsing

\* ParseKeyValuePairs: every token holding '=' becomes <<key, value>>, in order
RECURSIVE PairsOf(_)
PairsOf(tokens) ==
  IF tokens = <<>> THEN <<>>
  ELSE LET token == Head(tokens)
           pos == FindChar(token, "=")
       IN  (IF pos >= 0
            THEN << <<SubSeq(token, 1, pos), Substr(token, pos + 1)>> >>
            ELSE <<>>) \o PairsOf(Tail(tokens))

ParseKeyValuePairs(str) == PairsOf(ReadWords(Stream(str)))

\* DebugInfo as default-constructed
DebugInfo0 ==
  [query_time_ms |-> <<0, 0>>, index_time_ms |-> <<0, 0>>,
   filter_time_ms |-> <<0, 0>>, terms |-> 0, ngrams |-> 0, candidates |-> 0,
   after_intersection |-> 0, after_not |-> 0, after_filters |-> 0,
   final |-> 0, optimization |-> <<>>]

\* one iteration of the loop of ParseDebugInfo on `token`, from `info`
DebugStep(info, token) ==
  LET pos == FindChar(token, "=")
      key == SubSeq(token, 1, pos)
      value == Substr(token, pos + 1)
      d == stod(value)
      u == stoull(value)
      Dbl(f) == [throws |-> d.throws, info |-> [info EXCEPT ![f] = d.val]]
      U32f(f) == [throws |-> u.throws, info |-> [info EXCEPT ![f] = U32(u.val)]]
      U64f(f) == [throws |-> u.throws, info |-> [info EXCEPT ![f] = u.val]]
  IN  IF pos < 0 THEN [throws |-> FALSE, info |-> info]
      ELSE CASE key = <<"q","u","e","r","y","_","t","i","m","e">> -> Dbl("query_time_ms")
             [] key = <<"i","n","d","e","x","_","t","i","m","e">> -> Dbl("index_time_ms")
             [] key = <<"f","i","l","t","e","r","_","t","i","m","e">> -> Dbl("filter_time_ms")
             [] key = <<"t","e","r","m","s">> -> U32f("terms")
             [] key = <<"n","g","r","a","m","s">> -> U32f("ngrams")
             [] key = <<"c","a","n","d","i","d","a","t","e","s">> -> U64f("candidates")
             [] key = <<"a","f","t","e","r","_","i","n","t","e","r","s","e","c","t","i","o","n">> -> U64f("after_intersection")
             [] key = <<"a","f","t","e","r","_","n","o","t">> -> U64f("after_not")
             [] key = <<"a","f","t","e","r","_","f","i","l","t","e","r","s">> -> U64f("after_filters")
             [] key = <<"f","i","n","a","l">> -> U64f("final")
             [] key = <<"o","p","t","i","m","i","z","a","t","i","o","n">> ->
                  [throws |-> FALSE, info |-> [info EXCEPT !.optimization = value]]
             [] OTHER -> [throws |-> FALSE, info |-> info]

RECURSIVE DebugLoop(_, _)
DebugLoop(info, tokens) ==
  IF tokens = <<>> THEN [throws |-> FALSE, info |-> info]
  ELSE CHOOSE out \in
         { IF r.throws THEN [throws |-> TRUE, info |-> r.info]
           ELSE DebugLoop(r.info, Tail(tokens)) :
             r \in {DebugStep(info, Head(tokens))} } : TRUE

\* ParseDebugInfo(tokens, start_index), start_index counted from 0:
\* has = FALSE is std::nullopt; throws = TRUE is the std::invalid_argument
\* of std::stod / std::stoul / std::stoull
ParseDebugInfo(tokens, start_index) ==
  IF start_index >= Len(tokens) \/ tokens[start_index + 1] # <<"D","E","B","U","G">>
  THEN [throws |-> FALSE, has |-> FALSE, info |-> DebugInfo0]
  ELSE LET r == DebugLoop(DebugInfo0, SubSeq(tokens, start_index + 2, Len(tokens)))
       IN  [throws |-> r.throws, has |-> TRUE, info |-> r.info]

\* --------------------------------------------------------- command building

NeedsQuotes(c) == c \in {" ", "\t", "\n", "\r", "\"", "'"}

\* EscapeChars that escapes the double quote only, not the backslash
RECURSIVE EscapeQuotesOnly(_)
EscapeQuotesOnly(s) ==
  IF s = <<>> THEN <<>>
  ELSE (IF s[1] = "\"" THEN <<"\\", s[1]>> ELSE <<s[1]>>)
       \o EscapeQuotesOnly(Tail(s))

RECURSIVE EscapeChars(_)
EscapeChars(s) ==
  IF s = <<>> THEN <<>>
  ELSE (IF s[1] = "\"" \/ s[1] = "\\" THEN <<"\\", s[1]>> ELSE <<s[1]>>)
       \o EscapeChars(Tail(s))

EscapeQueryString(str) ==
  IF \E i \in 1..Len(str) : NeedsQuotes(str[i])
  THEN <<"\"">> \o EscapeChars(str) \o <<"\"">>
  ELSE str

\* the " AND <term>" / " NOT <term>" loops
RECURSIVE TermClauses(_, _)
TermClauses(word, terms) ==
  IF terms = <<>> THEN <<>>
  ELSE word \o EscapeQueryString(Head(terms)) \o TermClauses(word, Tail(terms))

\* the " FILTER <key> = <value>" loop
RECURSIVE FilterClauses(_)
FilterClauses(filters) ==
  IF filters = <<>> THEN <<>>
  ELSE <<" ","F","I","L","T","E","R"," ">> \o Head(filters)[1] \o <<" ","="," ">>
       \o EscapeQueryString(Head(filters)[2]) \o FilterClauses(Tail(filters))

\* SortClause with the descending order written out when no column is given
SortClauseSymmetric(sort_column, sort_desc) ==
  IF sort_column # <<>>
  THEN <<" ","S","O","R","T"," ">> \o sort_column \o (IF sort_desc THEN <<" ","D","E","S","C">> ELSE <<" ","A","S","C">>)
  ELSE IF ~sort_desc THEN <<" ","S","O","R","T"," ","A","S","C">>
  ELSE <<" ","S","O","R","T"," ","D","E","S","C">>

SortClause(sort_column, sort_desc) ==
  IF sort_column # <<>>
  THEN <<" ","S","O","R","T"," ">> \o sort_column \o (IF sort_desc THEN <<" ","D","E","S","C">> ELSE <<" ","A","S","C">>)
  ELSE IF ~sort_desc THEN <<" ","S","O","R","T"," ","A","S","C">>
  ELSE <<>>

\* LimitClause with the count written before the offset
LimitClauseCountFirst(limit, offset) ==
  IF limit > 0 /\ offset > 0
  THEN <<" ","L","I","M","I","T"," ">> \o ToDecimal(limit) \o <<",">> \o ToDecimal(offset)
  ELSE IF limit > 0 THEN <<" ","L","I","M","I","T"," ">> \o ToDecimal(limit)
  ELSE <<>>

LimitClause(limit, offset) ==
  IF limit > 0 /\ offset > 0
  THEN <<" ","L","I","M","I","T"," ">> \o ToDecimal(offset) \o <<",">> \o ToDecimal(limit)
  ELSE IF limit > 0 THEN <<" ","L","I","M","I","T"," ">> \o ToDecimal(limit)
  ELSE <<>>

\* SearchCommand with the NOT clauses written before the AND clauses
SearchCommandNotFirst(a) ==
  <<"S","E","A","R","C","H"," ">> \o a.table \o <<" ">> \o EscapeQueryString(a.query)
  \o TermClauses(<<" ","N","O","T"," ">>, a.not_terms)
  \o TermClauses(<<" ","A","N","D"," ">>, a.and_terms)
  \o FilterClauses(a.filters)
  \o SortClause(a.sort_column, a.sort_desc)
  \o LimitClause(a.limit, a.offset)

SearchCommand(a) ==
  <<"S","E","A","R","C","H"," ">> \o a.table \o <<" ">> \o EscapeQueryString(a.query)
  \o TermClauses(<<" ","A","N","D"," ">>, a.and_terms)
  \o TermClauses(<<" ","N","O","T"," ">>, a.not_terms)
  \o FilterClauses(a.filters)
  \o SortClause(a.sort_column, a.sort_desc)
  \o LimitClause(a.limit, a.offset)

\* CountCommand that leaves the NOT clauses out
CountCommandNoNot(a) ==
  <<"C","O","U","N","T"," ">> \o a.table \o <<" ">> \o EscapeQueryString(a.query)
  \o TermClauses(<<" ","A","N","D"," ">>, a.and_terms)
  \o FilterClauses(a.filters)

CountCommand(a) ==
  <<"C","O","U","N","T"," ">> \o a.table \o <<" ">> \o EscapeQueryString(a.query)
  \o TermClauses(<<" ","A","N","D"," ">>, a.and_terms)
  \o TermClauses(<<" ","N","O","T"," ">>, a.not_terms)
  \o FilterClauses(a.filters)

GetCommand(a) == <<"G","E","T"," ">> \o a.table \o <<" ">> \o a.primary_key

SaveCommand(filepath) ==
  IF filepath = <<>> THEN <<"S","A","V","E">> ELSE <<"S","A","V","E"," ">> \o filepath

LoadCommand(filepath) == <<"L","O","A","D"," ">> \o filepath

\* ---------------------------------------------------------- response parsing

\* what the parsing half of an operation produces
Value(v) == [kind |-> "ok", err |-> <<>>, val |-> v, exc |-> ""]
Error(m) == [kind |-> "error", err |-> m, val |-> NoVal, exc |-> ""]
Throw(e) == [kind |-> "throw", err |-> <<>>, val |-> NoVal, exc |-> e]

ERRORword == <<"E","R","R","O","R">>

\* return Error(response.substr(kErrorPrefixLen))
ErrorReply(response) ==
  IF SubstrThrows(response, kErrorPrefixLen) THEN Throw("out_of_range")
  ELSE Error(Substr(response, kErrorPrefixLen))

\* StringReply that cuts one character too few off the response
StringReplyOffByOne(response, prefixLen) ==
  IF SubstrThrows(response, prefixLen - 1) THEN Throw("out_of_range")
  ELSE Value(Substr(response, prefixLen - 1))

\* return response.substr(kErrorPrefixLen) from an operation that returns
\* std::variant<std::string, Error>: the std::string alternative is built
StringReply(response, prefixLen) ==
  IF SubstrThrows(response, prefixLen) THEN Throw("out_of_range")
  ELSE Value(Substr(response, prefixLen))

\* DebugIndexFrom that never finds the DEBUG token
DebugIndexNone(tokens, i) == Len(tokens)

\* index (0-based) of the first token equal to DEBUG, or the token count
RECURSIVE DebugIndexFrom(_, _)
DebugIndexFrom(tokens, i) ==
  IF i > Len(tokens) THEN Len(tokens)
  ELSE IF tokens[i] = <<"D","E","B","U","G">> THEN i - 1
  ELSE DebugIndexFrom(tokens, i + 1)

\* Impl::Search after SendCommand returned `response`
ParseSearch(response) ==
  IF StartsWith(response, ERRORword) THEN ErrorReply(response)
  ELSE IF ~StartsWith(response, <<"O","K"," ","R","E","S","U","L","T","S">>) THEN Error(UnexpectedFormat)
  ELSE LET s1 == ReadWord(Stream(response))
           s2 == ReadWord(s1.st)
           n  == ReadU64(s2.st)
       IN  CHOOSE out \in
             { LET debug_index == DebugIndexFrom(tokens, 1)
                   d == IF debug_index < Len(tokens)
                        THEN ParseDebugInfo(tokens, debug_index)
                        ELSE [throws |-> FALSE, has |-> FALSE, info |-> DebugInfo0]
               IN  IF d.throws THEN Throw("invalid_argument")
                   ELSE Value([total_count |-> n.val,
                               results |-> SubSeq(tokens, 1, debug_index),
                               hasDebug |-> d.has, debug |-> d.info]) :
                 tokens \in {ReadWords(n.st)} } : TRUE

\* Impl::Count after SendCommand returned `response`
ParseCount(response) ==
  IF StartsWith(response, ERRORword) THEN ErrorReply(response)
  ELSE IF ~StartsWith(response, <<"O","K"," ","C","O","U","N","T">>) THEN Error(UnexpectedFormat)
  ELSE LET s1 == ReadWord(Stream(response))
           s2 == ReadWord(s1.st)
           n  == ReadU64(s2.st)
       IN  CHOOSE out \in
             { LET d == IF tokens # <<>> /\ tokens[1] = <<"D","E","B","U","G">>
                        THEN ParseDebugInfo(tokens, 0)
                        ELSE [throws |-> FALSE, has |-> FALSE, info |-> DebugInfo0]
               IN  IF d.throws THEN Throw("invalid_argument")
                   ELSE Value([count |-> n.val, hasDebug |-> d.has,
                               debug |-> d.info]) :
                 tokens \in {ReadWords(n.st)} } : TRUE

\* Impl::Get after SendCommand returned `response`
ParseGet(response) ==
  IF StartsWith(response, ERRORword) THEN ErrorReply(response)
  ELSE IF ~StartsWith(response, <<"O","K"," ","D","O","C">>) THEN Error(UnexpectedFormat)
  ELSE LET s1 == ReadWord(Stream(response))
           s2 == ReadWord(s1.st)
           pk == ReadWord(s2.st)
           rest == ReadLine(pk.st, "\n")
       IN  Value([primary_key |-> pk.tok,
                  fields |-> ParseKeyValuePairs(rest.line)])

\* value.find_first_not_of(" \t\r\n") .. find_last_not_of: the trimmed value,
\* or the value itself when it holds nothing else
RECURSIVE TrimRight(_)
TrimRight(s) ==
  IF s # <<>> /\ IsSpace(s[Len(s)]) THEN TrimRight(SubSeq(s, 1, Len(s) - 1)) ELSE s

Trim(value) == IF SkipWs(value) = <<>> THEN value ELSE TrimRight(SkipWs(value))

\* SplitTables without the test of table.empty()
RECURSIVE SplitTablesKeepEmpty(_)
SplitTablesKeepEmpty(st) ==
  CHOOSE tables \in
    { IF r.st.fail THEN <<>>
      ELSE <<r.line>> \o SplitTablesKeepEmpty(r.st) :
        r \in {ReadLine(st, ",")} } : TRUE

\* the comma-separated table names, empty entries dropped
RECURSIVE SplitTables(_)
SplitTables(st) ==
  CHOOSE tables \in
    { IF r.st.fail THEN <<>>
      ELSE (IF r.line # <<>> THEN <<r.line>> ELSE <<>>) \o SplitTables(r.st) :
        r \in {ReadLine(st, ",")} } : TRUE

ServerInfo0 ==
  [version |-> <<>>, uptime_seconds |-> 0, total_requests |-> 0,
   active_connections |-> 0, index_size_bytes |-> 0, doc_count |-> 0,
   tables |-> <<>>]

\* the body of the while loop of Impl::Info on `line`, from `info`
InfoLine(info, line) ==
  IF line = <<>> \/ line[1] = "#" \/ line[1] = "\r"
  THEN [throws |-> FALSE, info |-> info]
  ELSE LET colon_pos == FindChar(line, ":")
           key == SubSeq(line, 1, colon_pos)
           value == Trim(Substr(line, colon_pos + 1))
           u == stoull(value)
           U64f(f) == [throws |-> u.throws, info |-> [info EXCEPT ![f] = u.val]]
       IN  IF colon_pos < 0 THEN [throws |-> FALSE, info |-> info]
           ELSE CASE key = <<"v","e","r","s","i","o","n">> ->
                       [throws |-> FALSE, info |-> [info EXCEPT !.version = value]]
                  [] key = <<"u","p","t","i","m","e","_","s","e","c","o","n","d","s">> -> U64f("uptime_seconds")
                  [] key = <<"t","o","t","a","l","_","r","e","q","u","e","s","t","s">> -> U64f("total_requests")
                  [] key = <<"a","c","t","i","v","e","_","c","o","n","n","e","c","t","i","o","n","s">> -> U64f("active_connections")
                  [] key = <<"i","n","d","e","x","_","s","i","z","e","_","b","y","t","e","s">> -> U64f("index_size_bytes")
                  [] key = <<"d","o","c","_","c","o","u","n","t">> \/ key = <<"t","o","t","a","l","_","d","o","c","u","m","e","n","t","s">> -> U64f("doc_count")
                  [] key = <<"t","a","b","l","e","s">> ->
                       [throws |-> FALSE,
                        info |-> [info EXCEPT
                                    !.tables = info.tables \o SplitTables(Stream(value))]]
                  [] OTHER -> [throws |-> FALSE, info |-> info]

RECURSIVE InfoLoop(_, _)
InfoLoop(info, st) ==
  CHOOSE out \in
    { IF l.st.fail THEN [throws |-> FALSE, info |-> info]
      ELSE CHOOSE o \in
             { IF r.throws THEN [throws |-> TRUE, info |-> r.info]
               ELSE InfoLoop(r.info, l.st) :
                 r \in {InfoLine(info, l.line)} } : TRUE :
        l \in {ReadLine(st, "\n")} } : TRUE

\* Impl::Info after SendCommand returned `response`
ParseInfo(response) ==
  IF StartsWith(response, ERRORword) THEN ErrorReply(response)
  ELSE IF ~StartsWith(response, <<"O","K"," ","I","N","F","O">>) THEN Error(UnexpectedFormat)
  ELSE LET first == ReadLine(Stream(response), "\n")
           r == InfoLoop(ServerInfo0, first.st)
       IN  IF r.throws THEN Throw("invalid_argument") ELSE Value(r.info)

\* Impl::GetConfig after SendCommand returned `response`
ParseGetConfig(response) ==
  IF StartsWith(response, ERRORword) THEN StringReply(response, kErrorPrefixLen)
  ELSE Value(response)

\* Impl::Save after SendCommand returned `response`
ParseSave(response) ==
  IF StartsWith(response, ERRORword) THEN StringReply(response, kErrorPrefixLen)
  ELSE IF ~StartsWith(response, <<"O","K"," ","S","A","V","E","D">>) THEN Error(UnexpectedFormat)
  ELSE StringReply(response, kSavedPrefixLen)

\* Impl::Load after SendCommand returned `response`
ParseLoad(response) ==
  IF StartsWith(response, ERRORword) THEN StringReply(response, kErrorPrefixLen)
  ELSE IF ~StartsWith(response, <<"O","K"," ","L","O","A","D","E","D">>) THEN Error(UnexpectedFormat)
  ELSE StringReply(response, kLoadedPrefixLen)

\* ReplicationLoop that takes any status pair for a running replication
RECURSIVE ReplicationLoopAnyStatus(_, _)
ReplicationLoopAnyStatus(status, pairs) ==
  IF pairs = <<>> THEN status
  ELSE LET key == Head(pairs)[1]
           value == Head(pairs)[2]
       IN  ReplicationLoopAnyStatus(
             IF key = <<"s","t","a","t","u","s">> THEN [status EXCEPT !.running = TRUE]
             ELSE IF key = <<"g","t","i","d">> THEN [status EXCEPT !.gtid = value]
             ELSE status,
             Tail(pairs))

\* the loop of Impl::GetReplicationStatus over the pairs
RECURSIVE ReplicationLoop(_, _)
ReplicationLoop(status, pairs) ==
  IF pairs = <<>> THEN status
  ELSE LET key == Head(pairs)[1]
           value == Head(pairs)[2]
       IN  ReplicationLoop(
             IF key = <<"s","t","a","t","u","s">> THEN [status EXCEPT !.running = (value = <<"r","u","n","n","i","n","g">>)]
             ELSE IF key = <<"g","t","i","d">> THEN [status EXCEPT !.gtid = value]
             ELSE status,
             Tail(pairs))

\* Impl::GetReplicationStatus after SendCommand returned `response`
ParseReplicationStatus(response) ==
  IF StartsWith(response, ERRORword) THEN ErrorReply(response)
  ELSE IF ~StartsWith(response, <<"O","K"," ","R","E","P","L","I","C","A","T","I","O","N">>) THEN Error(UnexpectedFormat)
  ELSE Value(ReplicationLoop(
               [running |-> FALSE, gtid |-> <<>>, status_str |-> response],
               ParseKeyValuePairs(response)))

\* Impl::StopReplication, StartReplication, EnableDebug, DisableDebug after
\* SendCommand returned `response`: std::optional<std::string>, the string
\* being the error
ParseAck(response) ==
  IF StartsWith(response, ERRORword)
  THEN IF SubstrThrows(response, kErrorPrefixLen) THEN Throw("out_of_range")
       ELSE Error(Substr(response, kErrorPrefixLen))
  ELSE Value(NoVal)

AckOps == {"StopReplication", "StartReplication", "EnableDebug", "DisableDebug"}

Parse(op, response) ==
  CASE op = "Search" -> ParseSearch(response)
    [] op = "Count" -> ParseCount(response)
    [] op = "Get" -> ParseGet(response)
    [] op = "Info" -> ParseInfo(response)
    [] op = "GetConfig" -> ParseGetConfig(response)
    [] op = "Save" -> ParseSave(response)
    [] op = "Load" -> ParseLoad(response)
    [] op = "GetReplicationStatus" -> ParseReplicationStatus(response)
    [] op \in AckOps -> ParseAck(response)

\* ------------------------------------------------------- facade operations

FacadeOps ==
  {"Search", "Count", "Get", "Info", "GetConfig", "Save", "Load",
   "GetReplicationStatus"} \cup AckOps

\* Parse, tabulated over the operations and the responses of the model
Parsed ==
  [op \in FacadeOps |->
     [r \in Responses[RecvBufferSize] |-> Parse(op, r)]]

\* an operation: build `command`, SendCommand, return its error or parse
Operation(op, command) ==
  /\ alive /\ CanSend
  /\ \E o \in SendCommandOutcomes(command) :
       /\ Apply(o)
       /\ ret' = IF o.isErr
                 THEN Returned(op, o, "error", o.err, NoVal, "")
                 ELSE LET p == Parsed[op][o.response]
                      IN  Returned(op, o, p.kind, p.err, p.val, p.exc)

\* the arguments the operations are called with
SearchArgs ==
  { [table |-> <<"d","o","c","s">>, query |-> <<"h","e","l","l","o">>, limit |-> 10, offset |-> 20,
     and_terms |-> <<>>, not_terms |-> <<>>, filters |-> <<>>,
     sort_column |-> <<>>, sort_desc |-> TRUE],
    [table |-> <<"d","o","c","s">>, query |-> <<"a"," ","b">>, limit |-> 5, offset |-> 0,
     and_terms |-> <<<<"x">>>>, not_terms |-> <<<<"y","\"","z">>>>,
     filters |-> << <<<<"k">>, <<"v"," ","w">>>> >>,
     sort_column |-> <<"i","d">>, sort_desc |-> FALSE] }

CountArgs ==
  { [table |-> <<"d","o","c","s">>, query |-> <<"h","e","l","l","o">>, and_terms |-> <<<<"x">>>>,
     not_terms |-> <<>>, filters |-> <<>>] }

GetArgs == { [table |-> <<"d","o","c","s">>, primary_key |-> <<"p","k">>] }

SavePaths == { <<>>, <<"/","t","m","p","/","a">> }
LoadPaths == { <<"/","t","m","p","/","a">> }

SearchCommands == { SearchCommand(a) : a \in SearchArgs }
CountCommands == { CountCommand(a) : a \in CountArgs }
GetCommands == { GetCommand(a) : a \in GetArgs }
SaveCommands == { SaveCommand(filepath) : filepath \in SavePaths }
LoadCommands == { LoadCommand(filepath) : filepath \in LoadPaths }

Search == \E command \in SearchCommands : Operation("Search", command)
Count == \E command \in CountCommands : Operation("Count", command)
Get == \E command \in GetCommands : Operation("Get", command)
Info == Operation("Info", <<"I","N","F","O">>)
GetConfig == Operation("GetConfig", <<"C","O","N","F","I","G">>)
Save == \E command \in SaveCommands : Operation("Save", command)
Load == \E command \in LoadCommands : Operation("Load", command)
GetReplicationStatus == Operation("GetReplicationStatus", <<"R","E","P","L","I","C","A","T","I","O","N"," ","S","T","A","T","U","S">>)
StopReplication == Operation("StopReplication", <<"R","E","P","L","I","C","A","T","I","O","N"," ","S","T","O","P">>)
StartReplication == Operation("StartReplication", <<"R","E","P","L","I","C","A","T","I","O","N"," ","S","T","A","R","T">>)
EnableDebug == Operation("EnableDebug", <<"D","E","B","U","G"," ","O","N">>)
DisableDebug == Operation("DisableDebug", <<"D","E","B","U","G"," ","O","F","F">>)

Next ==
  \/ Connect
  \/ Disconnect
  \/ Destroy
  \/ Construct
  \/ SendCommand
  \/ Search
  \/ Count
  \/ Get
  \/ Info
  \/ GetConfig
  \/ Save
  \/ Load
  \/ GetReplicationStatus
  \/ StopReplication
  \/ StartReplication
  \/ EnableDebug
  \/ DisableDebug

Spec == Init /\ [][Next]_vars


\* ------------------------------------------------------------ the tokenizer
\*
\* A text is its UTF-8 bytes, a sequence of numbers in 0..255.

\* number of bytes of the sequence that starts with the lead byte b
LeadLen(b) == IF b < 128 THEN 1 ELSE IF b < 224 THEN 2 ELSE IF b < 240 THEN 3 ELSE 4

\* the scalar value the bytes of one sequence encode
DecodeOne(bytes) ==
  CASE Len(bytes) = 1 -> bytes[1]
    [] Len(bytes) = 2 -> (bytes[1] - 192) * 64 + (bytes[2] - 128)
    [] Len(bytes) = 3 ->
         (bytes[1] - 224) * 4096 + (bytes[2] - 128) * 64 + (bytes[3] - 128)
    [] OTHER ->
         (bytes[1] - 240) * 262144 + (bytes[2] - 128) * 4096
           + (bytes[3] - 128) * 64 + (bytes[4] - 128)

\* the bytes that encode the scalar value cp
EncodeOne(cp) ==
  IF cp < 128 THEN <<cp>>
  ELSE IF cp < 2048 THEN <<192 + (cp \div 64), 128 + (cp % 64)>>
  ELSE IF cp < 65536
  THEN <<224 + (cp \div 4096), 128 + ((cp \div 64) % 64), 128 + (cp % 64)>>
  ELSE <<240 + (cp \div 262144), 128 + ((cp \div 4096) % 64),
         128 + ((cp \div 64) % 64), 128 + (cp % 64)>>

\* Utf8ToCodepoints(text) for valid UTF-8
RECURSIVE Utf8ToCodepoints(_)
Utf8ToCodepoints(text) ==
  IF text = <<>> THEN <<>>
  ELSE LET k == LeadLen(Head(text))
       IN  <<DecodeOne(SubSeq(text, 1, k))>>
           \o Utf8ToCodepoints(SubSeq(text, k + 1, Len(text)))

\* CodepointsToUtf8(codepoints)
RECURSIVE CodepointsToUtf8(_)
CodepointsToUtf8(codepoints) ==
  IF codepoints = <<>> THEN <<>>
  ELSE EncodeOne(Head(codepoints)) \o CodepointsToUtf8(Tail(codepoints))

\* the sliding window: every run of n consecutive codepoints, in order
RECURSIVE Windows(_, _)
Windows(codepoints, n) ==
  IF Len(codepoints) < n THEN <<>>
  ELSE <<SubSeq(codepoints, 1, n)>> \o Windows(Tail(codepoints), n)

\* the windows as texts
Encoded(windows) == [i \in 1..Len(windows) |-> CodepointsToUtf8(windows[i])]

\* the sliding window moved over bytes instead of codepoints
GenerateNgramsOfBytes(text, n) == Windows(text, n)

\* GenerateNgrams(text, n), n >= 1
GenerateNgrams(text, n) == Encoded(Windows(Utf8ToCodepoints(text), n))

\* a codepoint of the unified CJK ideograph block, U+4E00 .. U+9FFF
IsCjkIdeograph(cp) == cp >= 19968 /\ cp <= 40959

\* length of the maximal run of one class the codepoints start with
RECURSIVE RunLen(_)
RunLen(codepoints) ==
  IF Len(codepoints) <= 1 THEN Len(codepoints)
  ELSE IF IsCjkIdeograph(codepoints[1]) = IsCjkIdeograph(codepoints[2])
  THEN 1 + RunLen(Tail(codepoints))
  ELSE 1

\* HybridWindows with one window run over the whole text, of the size of the
\* class of its first codepoint
HybridWindowsAcrossRuns(codepoints, ascii_ngram_size, kanji_ngram_size) ==
  IF codepoints = <<>> THEN <<>>
  ELSE Windows(codepoints,
               IF IsCjkIdeograph(Head(codepoints))
               THEN kanji_ngram_size ELSE ascii_ngram_size)

\* the windows of each maximal run, with the size of the run's class, the
\* runs taken in order
RECURSIVE HybridWindows(_, _, _)
HybridWindows(codepoints, ascii_ngram_size, kanji_ngram_size) ==
  IF codepoints = <<>> THEN <<>>
  ELSE LET r == RunLen(codepoints)
           size == IF IsCjkIdeograph(Head(codepoints))
                   THEN kanji_ngram_size ELSE ascii_ngram_size
       IN  Windows(SubSeq(codepoints, 1, r), size)
           \o HybridWindows(SubSeq(codepoints, r + 1, Len(codepoints)),
                            ascii_ngram_size, kanji_ngram_size)

\* GenerateHybridNgrams(text, ascii_ngram_size, kanji_ngram_size)
GenerateHybridNgrams(text, ascii_ngram_size, kanji_ngram_size) ==
  Encoded(HybridWindows(Utf8ToCodepoints(text), ascii_ngram_size,
                        kanji_ngram_size))

\* ------------------------------------------- the builders and parsers alone
\*
\* SpecCodec applies the command builders and the response parsers to inputs
\* drawn from wider sets than the exchanges of Spec carry.  The client is
\* connected (the state a successful Connect leaves); an initial state holds
\* in ret a call that is still to be made (kind = "none") with its argument,
\* and the one step of a behaviour makes the call and records what it
\* returned.

\* longest text given to EscapeQueryString, longest path of a reply
MaxLen == 3
\* most and-terms, not-terms and filters of one command, counted together
MaxTerms == 2
\* most tokens that follow the fixed head of a reply
MaxTokens == 3
\* largest n-gram size
MaxN == 3

\* the sequences over S of length at most n
Seqs(S, n) == UNION { [1..k -> S] : k \in 0..n }

\* the tokens, each preceded by one space
RECURSIVE Spaced(_)
Spaced(tokens) ==
  IF tokens = <<>> THEN <<>> ELSE <<" ">> \o Head(tokens) \o Spaced(Tail(tokens))

\* characters of the arguments of EscapeQueryString
EscapeAlphabet == {"a", " ", "\t", "\n", "\r", "\"", "'", "\\"}
EscapeInputs == Seqs(EscapeAlphabet, MaxLen)

\* arguments of Search and Count
AndTerms == { <<"x">>, <<"y"," ","z">> }
NotTerms == { <<"n">>, <<"q","\"","r">> }
Filters == { <<<<"k">>, <<"v">>>>, <<<<"k","2">>, <<"v"," ","w">>>> }

\* the and-terms, not-terms and filters of one command: MaxTerms of them
\* at most, all three lists counted together
TermLists ==
  { l \in [and_terms : Seqs(AndTerms, MaxTerms),
           not_terms : Seqs(NotTerms, MaxTerms),
           filters : Seqs(Filters, MaxTerms)] :
      Len(l.and_terms) + Len(l.not_terms) + Len(l.filters) <= MaxTerms }

\* a command with every clause, two of each list
FullSearch ==
  [table |-> <<"d","o","c","s">>, query |-> <<"a"," ","b">>, limit |-> 10, offset |-> 20,
   and_terms |-> << <<"x">>, <<"y"," ","z">> >>, not_terms |-> << <<"q","\"","r">>, <<"n">> >>,
   filters |-> << <<<<"k","2">>, <<"v"," ","w">>>>, <<<<"k">>, <<"v">>>> >>,
   sort_column |-> <<"i","d">>, sort_desc |-> FALSE]

BuildSearchArgs ==
  { [table |-> <<"d","o","c","s">>, query |-> q, limit |-> lim, offset |-> off,
     and_terms |-> l.and_terms, not_terms |-> l.not_terms,
     filters |-> l.filters, sort_column |-> col, sort_desc |-> desc] :
      q \in {<<"h","e","l","l","o">>, <<"a"," ","b">>}, lim \in {0, 10}, off \in {0, 20},
      l \in TermLists, col \in {<<>>, <<"i","d">>}, desc \in BOOLEAN }
  \cup {FullSearch}

BuildCountArgs ==
  { [table |-> <<"d","o","c","s">>, query |-> q, and_terms |-> l.and_terms,
     not_terms |-> l.not_terms, filters |-> l.filters] :
      q \in {<<"h","e","l","l","o">>, <<"a"," ","b">>}, l \in TermLists }

\* responses SendCommand can hand to the parsers
CountTexts == { <<"2">>, <<"1","7">> }
ResultTokens ==
  { <<"x","1">>, <<"D","E","B","U","G">>, <<"t","e","r","m","s","=","3">>, <<"q","u","e","r","y","_","t","i","m","e","=","1",".","5">>, <<"f","o","o","=","1">> }
ExampleTokens == << <<"x","1">>, <<"x","2">>, <<"D","E","B","U","G">>, <<"q","u","e","r","y","_","t","i","m","e","=","1",".","5">>, <<"t","e","r","m","s","=","3">> >>
\* the count and the tokens a response to Search or Count is made of
ResultForms ==
  [n : CountTexts, tokens : Seqs(ResultTokens, MaxTokens) \cup {ExampleTokens}]
SearchReply(f) == <<"O","K"," ","R","E","S","U","L","T","S"," ">> \o f.n \o Spaced(f.tokens)
CountReply(f) == <<"O","K"," ","C","O","U","N","T"," ">> \o f.n \o Spaced(f.tokens)

DocTokens == { <<"a","=","1">>, <<"a","=","2">>, <<"b","=","3">>, <<"j","u","n","k">> }
DocForms == [tokens : Seqs(DocTokens, MaxTokens)]
GetReply(f) == <<"O","K"," ","D","O","C"," ","p","k">> \o Spaced(f.tokens)

ReplicationTokens ==
  { <<"s","t","a","t","u","s","=","r","u","n","n","i","n","g">>, <<"s","t","a","t","u","s","=","s","t","o","p","p","e","d">>, <<"g","t","i","d","=","g","1">>, <<"g","t","i","d","=","a","=","b">>, <<"l","a","g","=","0">> }
ReplicationForms == [tokens : Seqs(ReplicationTokens, MaxTokens)]
ReplicationReply(f) == <<"O","K"," ","R","E","P","L","I","C","A","T","I","O","N">> \o Spaced(f.tokens)

\* a text with a line end inside, as a caller may pass for any argument
TwoLines == <<"x","\r","\n","S","A","V","E">>
PlainSearch ==
  [table |-> <<"d","o","c","s">>, query |-> <<"h","e","l","l","o">>, limit |-> 0, offset |-> 0,
   and_terms |-> <<>>, not_terms |-> <<>>, filters |-> <<>>,
   sort_column |-> <<>>, sort_desc |-> TRUE]
PlainCount ==
  [table |-> <<"d","o","c","s">>, query |-> <<"h","e","l","l","o">>, and_terms |-> <<>>,
   not_terms |-> <<>>, filters |-> <<>>]
\* the calls whose bytes on the wire are looked at: each argument in turn is
\* a plain text or TwoLines
LineCalls ==
  { [api |-> "Search", args |-> a] :
      a \in { PlainSearch, FullSearch,
              [PlainSearch EXCEPT !.table = TwoLines],
              [PlainSearch EXCEPT !.query = TwoLines],
              [PlainSearch EXCEPT !.and_terms = <<TwoLines>>],
              [PlainSearch EXCEPT !.not_terms = <<TwoLines>>],
              [PlainSearch EXCEPT !.filters = << <<TwoLines, <<"v">>>> >>],
              [PlainSearch EXCEPT !.filters = << <<<<"k">>, TwoLines>> >>],
              [PlainSearch EXCEPT !.sort_column = TwoLines] } }
  \cup { [api |-> "Count", args |-> a] :
           a \in { PlainCount, [PlainCount EXCEPT !.table = TwoLines],
                   [PlainCount EXCEPT !.query = <<"a","\n","b">>] } }
  \cup { [api |-> "Get", args |-> [table |-> t, primary_key |-> pk]] :
           t \in {<<"d","o","c","s">>, TwoLines}, pk \in {<<"p","k">>, TwoLines} }
  \cup { [api |-> "Save", args |-> path] : path \in {<<>>, <<"/","t","m","p","/","a">>, TwoLines} }
  \cup { [api |-> "Load", args |-> path] : path \in {<<"/","t","m","p","/","a">>, TwoLines} }
  \cup { [api |-> "SendCommand", args |-> c] : c \in {<<"P","I","N","G">>, TwoLines} }

\* the command the operation op builds from the arguments a
CommandOf(op, a) ==
  CASE op = "Search" -> SearchCommand(a)
    [] op = "Count" -> CountCommand(a)
    [] op = "Get" -> GetCommand(a)
    [] op = "Save" -> SaveCommand(a)
    [] op = "Load" -> LoadCommand(a)
    [] OTHER -> a

\* std::string msg = command + "\r\n": the bytes given to send()
WireLine(op, a) == CommandOf(op, a) \o CRLF

\* the codepoints of the texts given to the tokenizer: a, e with acute, two
\* CJK ideographs (U+6F22, U+5B57) and hiragana a (U+3042)
Codepoints == {97, 233, 28450, 23383, 12354}
\* a text, held with the codepoints it was encoded from
TextForms == [cps : Seqs(Codepoints, MaxLen)]
NgramSizes == 1..MaxN
NgramArgs(f) == [text : {CodepointsToUtf8(f.cps)}, n : NgramSizes]
HybridArgs(f) ==
  [text : {CodepointsToUtf8(f.cps)}, ascii_ngram_size : NgramSizes,
   kanji_ngram_size : NgramSizes]

\* the lines that follow "OK INFO", and the line ends the server may use
InfoLines ==
  { <<"v","e","r","s","i","o","n",":"," ","1",".","0">>, <<"u","p","t","i","m","e","_","s","e","c","o","n","d","s",":"," ","5">>, <<"t","a","b","l","e","s",":"," ","a",",",",","b">>, <<"#"," ","S","e","r","v","e","r">>,
    <<>>, <<"f","o","o",":"," ","1">> }
InfoForms == [lines : Seqs(InfoLines, MaxTokens), eol : {CRLF, <<"\n">>}]
RECURSIVE Lined(_, _)
Lined(lines, eol) ==
  IF lines = <<>> THEN <<>>
  ELSE eol \o Head(lines) \o Lined(Tail(lines), eol)
\* the response as SendCommand returns it, trailing line ends removed
InfoReply(f) == StripTrailing(<<"O","K"," ","I","N","F","O">> \o Lined(f.lines, f.eol))

PathAlphabet == {"/", "a", " "}
PathForms == [path : Seqs(PathAlphabet, MaxLen)]
SaveReply(f) == <<"O","K"," ","S","A","V","E","D"," ">> \o f.path
LoadReply(f) == <<"O","K"," ","L","O","A","D","E","D"," ">> \o f.path

\* responses of no particular operation, handed to every operation
OtherReplies ==
  { <<>>, <<"g","a","r","b","a","g","e">>, <<"e","r","r","o","r">>, <<"O","K">>, <<"O","K","A","Y">>, <<"E","R","R","O","R"," ","n","o"," ","s","u","c","h"," ","t","a","b","l","e">>,
    <<"O","K"," ","R","E","S","U","L","T","S"," ","1"," ","x","1">>, <<"O","K"," ","C","O","U","N","T"," ","5">>, <<"O","K"," ","D","O","C"," ","p","k"," ","a","=","1">>, <<"O","K"," ","I","N","F","O">>,
    <<"O","K"," ","S","A","V","E","D"," ","/","t","m","p","/","a">>, <<"O","K"," ","L","O","A","D","E","D"," ","/","t","m","p","/","a">>, <<"O","K"," ","R","E","P","L","I","C","A","T","I","O","N"," ","s","t","a","t","u","s","=","r","u","n","n","i","n","g">>,
    <<"O","K"," ","D","E","B","U","G","_","O","N">> }

\* a call of op on args that is still to be made; form holds the parts a
\* response given as args was put together from
PureCall(op, args, form) ==
  [op |-> op, kind |-> "none", args |-> args, form |-> form, err |-> <<>>,
   val |-> NoVal, exc |-> ""]

\* the call made: p is what it produced (Value, Error or Throw)
Done(call, p) ==
  [call EXCEPT !.kind = p.kind, !.err = p.err, !.val = p.val, !.exc = p.exc]

PureCalls ==
  { PureCall("EscapeQueryString", s, NoVal) : s \in EscapeInputs }
  \cup { PureCall("SearchCommand", a, NoVal) : a \in BuildSearchArgs }
  \cup { PureCall("CountCommand", a, NoVal) : a \in BuildCountArgs }
  \cup { PureCall("Search", SearchReply(f), f) : f \in ResultForms }
  \cup { PureCall("Count", CountReply(f), f) : f \in ResultForms }
  \cup { PureCall("Get", GetReply(f), f) : f \in DocForms }
  \cup { PureCall("GetReplicationStatus", ReplicationReply(f), f) :
           f \in ReplicationForms }
  \cup { PureCall("WireLine", c, NoVal) : c \in LineCalls }
  \cup { PureCall("Info", InfoReply(f), f) : f \in InfoForms }
  \cup UNION { { PureCall("GenerateNgrams", a, f) : a \in NgramArgs(f) } :
                f \in TextForms }
  \cup UNION { { PureCall("GenerateHybridNgrams", a, f) : a \in HybridArgs(f) } :
                f \in TextForms }
  \cup { PureCall("Save", SaveReply(f), f) : f \in PathForms }
  \cup { PureCall("Load", LoadReply(f), f) : f \in PathForms }
  \cup { PureCall(op, r, NoVal) : op \in FacadeOps, r \in OtherReplies }

InitCodec ==
  /\ alive = TRUE
  /\ config_ = [host |-> LocalhostIp, recv_buffer_size |-> RecvBufferSize]
  /\ sock_ = 0
  /\ last_error_ = <<>>
  /\ openFds = {0}
  /\ badClose = FALSE
  /\ outstanding = 0
  /\ peerOpen = TRUE
  /\ ret \in PureCalls

\* the call ret holds is of op and was not made yet
Pending(op) == ret.op = op /\ ret.kind = "none"

\* the builders and parsers touch nothing of the client
ClientUnchanged ==
  UNCHANGED <<alive, config_, sock_, last_error_, openFds, badClose,
              outstanding, peerOpen>>

EscapeCall ==
  /\ Pending("EscapeQueryString")
  /\ ret' = Done(ret, Value(EscapeQueryString(ret.args)))
  /\ ClientUnchanged

SearchCommandCall ==
  /\ Pending("SearchCommand")
  /\ ret' = Done(ret, Value(SearchCommand(ret.args)))
  /\ ClientUnchanged

CountCommandCall ==
  /\ Pending("CountCommand")
  /\ ret' = Done(ret, Value(CountCommand(ret.args)))
  /\ ClientUnchanged

\* the building half of an operation and the line SendCommand makes of it
WireLineCall ==
  /\ Pending("WireLine")
  /\ ret' = Done(ret, Value(WireLine(ret.args.api, ret.args.args)))
  /\ ClientUnchanged

GenerateNgramsCall ==
  /\ Pending("GenerateNgrams")
  /\ ret' = Done(ret, Value(GenerateNgrams(ret.args.text, ret.args.n)))
  /\ ClientUnchanged

GenerateHybridNgramsCall ==
  /\ Pending("GenerateHybridNgrams")
  /\ ret' = Done(ret, Value(GenerateHybridNgrams(ret.args.text,
                                                 ret.args.ascii_ngram_size,
                                                 ret.args.kanji_ngram_size)))
  /\ ClientUnchanged

\* the parsing half of operation op on the response ret.args
Reply(op) ==
  /\ Pending(op)
  /\ ret' = Done(ret, Parse(op, ret.args))
  /\ ClientUnchanged

SearchParse == Reply("Search")
CountParse == Reply("Count")
GetParse == Reply("Get")
ReplicationStatusParse == Reply("GetReplicationStatus")
SaveParse == Reply("Save")
LoadParse == Reply("Load")
InfoParse == Reply("Info")
GetConfigParse == Reply("GetConfig")
AckParse == \E op \in AckOps : Reply(op)

NextCodec ==
  \/ EscapeCall
  \/ SearchCommandCall
  \/ CountCommandCall
  \/ WireLineCall
  \/ GenerateNgramsCall
  \/ GenerateHybridNgramsCall
  \/ SearchParse
  \/ CountParse
  \/ GetParse
  \/ ReplicationStatusParse
  \/ SaveParse
  \/ LoadParse
  \/ InfoParse
  \/ GetConfigParse
  \/ AckParse

SpecCodec == InitCodec /\ [][NextCodec]_vars

\* ------------------------------------------------- small receive buffers
\*
\* SpecWire is the client with a receive buffer of 0 .. MaxBuffer bytes:
\* Connect, SendCommand and Disconnect on configurations whose
\* recv_buffer_size the replies of the model do not fit in.

WireConfigs == [host : Hosts, recv_buffer_size : 0..MaxBuffer]

InitWire ==
  /\ alive = TRUE
  /\ config_ \in WireConfigs
  /\ sock_ = -1
  /\ last_error_ = <<>>
  /\ openFds = {}
  /\ badClose = FALSE
  /\ outstanding = 0
  /\ peerOpen = FALSE
  /\ ret = NoCall

NextWire ==
  \/ Connect
  \/ Disconnect
  \/ SendCommand

SpecWire == InitWire /\ [][NextWire]_vars

\* ================================================================== claims

SendingOps == FacadeOps \cup {"SendCommand"}

\* C1: Connect() on a connected client fails with "Already connected", opens
\* no socket and leaves the connection as it was: IsConnected() stays true on
\* the same descriptor, which stays open.
C1_ConnectTwiceRefused ==
  [][(IsConnected /\ ret'.op = "Connect")
       => /\ ret'.kind = "error"
          /\ ret'.err = AlreadyConnected
          /\ ret'.opens = 0 /\ ret'.closes = 0
          /\ sock_' = sock_ /\ sock_' >= 0
          /\ openFds' = openFds /\ sock_' \in openFds'
          /\ outstanding' = outstanding /\ peerOpen' = peerOpen]_vars

C1_Witness ==
  /\ ret.op = "Connect" /\ ret.kind = "error" /\ ret.err = AlreadyConnected
  /\ sock_ >= 0 /\ openFds = {sock_}

ErrorPrefix == <<"E","R","R","O","R"," ">>

\* C2: for every command type, a response "ERROR <message>" makes the
\* operation return an error whose message is exactly <message>, never a
\* success value.
C2_ServerErrorIsError ==
  (ret.op \in FacadeOps /\ ret.gotResp /\ StartsWith(ret.resp, ErrorPrefix))
    => /\ ret.kind = "error"
       /\ ret.err = SubSeq(ret.resp, Len(ErrorPrefix) + 1, Len(ret.resp))

\* C3: after a failing call GetLastError() returns the message of the error
\* that this call returned.
C3_LastErrorIsReturnedError ==
  (ret.kind = "error") => (GetLastError = ret.err)

\* the texts of the failures of socket(), inet_pton() and connect()
ConnectFailureTexts ==
  { FailedToCreateSocket \o strerror("EMFILE"),
    InvalidAddress \o LocalhostName }
  \cup { ConnectionFailed \o strerror(e) : e \in ConnectErrnos }

\* C4: a Connect() that fails after the test of sock_ (socket creation,
\* invalid host, connect failure or timeout) has closed the socket it opened,
\* leaves the client disconnected and returns the failure text.
C4_ConnectFailureClosesSocket ==
  (ret.op = "Connect" /\ ret.kind = "error" /\ ret.err # AlreadyConnected)
    => /\ ~IsConnected
       /\ openFds = {}
       /\ ret.closes = ret.opens
       /\ ret.err \in ConnectFailureTexts

C4_Witness ==
  /\ ret.op = "Connect" /\ ret.kind = "error"
  /\ ret.opens = 1 /\ ret.closes = 1
  /\ ret.err = ConnectionFailed \o strerror("ETIMEDOUT")
  /\ ~IsConnected /\ openFds = {}

\* C5: every socket opened is closed exactly once: no close() is issued on a
\* descriptor that is not open, the only descriptor open between calls is the
\* one sock_ names, and none is open after Disconnect or destruction.
C5_SocketClosedExactlyOnce ==
  /\ ~badClose
  /\ openFds = (IF sock_ >= 0 THEN {sock_} ELSE {})
  /\ (ret.op \in {"Disconnect", "Destroy"}) => (openFds = {} /\ sock_ = -1)
  /\ ~alive => openFds = {}

C5_Witness ==
  /\ ret.op = "Destroy" /\ ret.closes = 1 /\ ~alive /\ openFds = {}

\* C6: SendCommand and every facade operation, called on a client that is
\* not connected, fail with "Not connected", issue no send() and no recv(),
\* and leave the client disconnected.
C6_NotConnectedFailsFast ==
  [][(~IsConnected /\ ret'.op \in SendingOps)
       => /\ ret'.kind = "error"
          /\ ret'.err = NotConnected
          /\ ret'.sends = 0 /\ ret'.recvs = 0 /\ ret'.sent = <<>>
          /\ ~ret'.gotResp
          /\ sock_' = -1 /\ openFds' = openFds
          /\ outstanding' = outstanding]_vars

C6_Witness ==
  /\ ret.op = "Search" /\ ret.kind = "error" /\ ret.err = NotConnected
  /\ ret.sends = 0 /\ ret.recvs = 0 /\ ~IsConnected

\* C7: Disconnect() never fails and leaves the client disconnected whatever
\* the state it is called in; a Disconnect() that directly follows another
\* closes no socket and changes nothing of the client.
C7_DisconnectIdempotent ==
  [][(ret'.op = "Disconnect")
       => /\ ret'.kind = "ok"
          /\ sock_' = -1 /\ openFds' = {}
          /\ ret'.closes = (IF sock_ >= 0 THEN 1 ELSE 0)
          /\ (ret.op = "Disconnect")
               => /\ ret'.closes = 0
                  /\ <<alive, config_, sock_, last_error_, openFds, badClose,
                       outstanding, peerOpen>>' =
                     <<alive, config_, sock_, last_error_, openFds, badClose,
                       outstanding, peerOpen>>]_vars

C7_Witness ==
  /\ ret.op = "Disconnect" /\ ret.again /\ ret.closes = 0
  /\ sock_ = -1 /\ openFds = {}

\* C8: in every state at most one command has been sent on the connection
\* without its response having been read.
C8_OneOutstandingCommand == outstanding <= 1

\* C9: no operation ends by raising an exception: each returns a typed
\* result or an error value, whatever the response text.
C9_NoException == ret.kind # "throw"

\* the third word of the response is an unsigned decimal integer
HasCount(response) ==
  LET words == ReadWords(Stream(response))
  IN  /\ Len(words) >= 3
      /\ DigitsLen(words[3]) = Len(words[3])

\* C10: Search and Count return an error when the number after "OK RESULTS"
\* or "OK COUNT" is missing or is not an unsigned decimal integer; they never
\* return a success whose count was defaulted to zero.
C10_BadCountIsError ==
  /\ (ret.op = "Search" /\ ret.gotResp /\ StartsWith(ret.resp, <<"O","K"," ","R","E","S","U","L","T","S">>)
        /\ ~HasCount(ret.resp)) => ret.kind = "error"
  /\ (ret.op = "Count" /\ ret.gotResp /\ StartsWith(ret.resp, <<"O","K"," ","C","O","U","N","T">>)
        /\ ~HasCount(ret.resp)) => ret.kind = "error"

\* the head of the response each operation expects; GetConfig and the four
\* acknowledged operations accept any "OK ..." response
ExpectedHead ==
  [op \in FacadeOps |->
     CASE op = "Search" -> <<"O","K"," ","R","E","S","U","L","T","S">>
       [] op = "Count" -> <<"O","K"," ","C","O","U","N","T">>
       [] op = "Get" -> <<"O","K"," ","D","O","C">>
       [] op = "Info" -> <<"O","K"," ","I","N","F","O">>
       [] op = "Save" -> <<"O","K"," ","S","A","V","E","D">>
       [] op = "Load" -> <<"O","K"," ","L","O","A","D","E","D">>
       [] op = "GetReplicationStatus" -> <<"O","K"," ","R","E","P","L","I","C","A","T","I","O","N">>
       [] OTHER -> <<"O","K">>]

\* C11: an operation handed a response that starts neither with "ERROR" nor
\* with the "OK <verb>" head it expects returns the error "Unexpected
\* response format", never a success.
C11_UnexpectedResponseIsError ==
  (ret.op \in FacadeOps /\ ret.kind # "none"
     /\ ~StartsWith(ret.args, ERRORword)
     /\ ~StartsWith(ret.args, ExpectedHead[ret.op]))
    => (ret.kind = "error" /\ ret.err = UnexpectedFormat)

\* the numbers the count texts of the responses denote
CountOf == [n \in CountTexts |-> IF n = <<"1","7">> THEN 17 ELSE 2]

\* position of the first DEBUG token of t, Len(t) + 1 when t has none
FirstDebug(t) ==
  IF \E i \in 1..Len(t) : t[i] = <<"D","E","B","U","G">>
  THEN CHOOSE i \in 1..Len(t) :
         t[i] = <<"D","E","B","U","G">> /\ \A j \in 1..(i - 1) : t[j] # <<"D","E","B","U","G">>
  ELSE Len(t) + 1

\* the DebugInfo the pairs among the tokens `after` amount to: the known keys
\* carry their values, every other field keeps its default
DebugOf(after) ==
  LET has(tok) == \E i \in 1..Len(after) : after[i] = tok
  IN  [DebugInfo0 EXCEPT
         !.query_time_ms = IF has(<<"q","u","e","r","y","_","t","i","m","e","=","1",".","5">>) THEN <<15, 1>> ELSE <<0, 0>>,
         !.terms = IF has(<<"t","e","r","m","s","=","3">>) THEN 3 ELSE 0]

\* C12: Search on "OK RESULTS <n> t1 ... tk [DEBUG p1 ... pm]" returns
\* total_count = n, results = the tokens before the first DEBUG token (all
\* without one), debug absent exactly without a DEBUG token and otherwise
\* holding the values of the known pairs after it, unknown keys ignored;
\* Count on "OK COUNT <n> [DEBUG p1 ... pm]" returns count = n and the same
\* debug.
C12_ResultsAndDebug ==
  /\ (ret.op = "Search" /\ ret.kind # "none" /\ ret.form # NoVal)
       => LET t == ret.form.tokens
              d == FirstDebug(t)
          IN  /\ ret.kind = "ok"
              /\ ret.val.total_count = CountOf[ret.form.n]
              /\ ret.val.results = SubSeq(t, 1, d - 1)
              /\ ret.val.hasDebug = (d <= Len(t))
              /\ ret.val.hasDebug
                   => ret.val.debug = DebugOf(SubSeq(t, d + 1, Len(t)))
  /\ (ret.op = "Count" /\ ret.kind # "none" /\ ret.form # NoVal
        /\ (ret.form.tokens = <<>> \/ Head(ret.form.tokens) = <<"D","E","B","U","G">>))
       => LET t == ret.form.tokens
          IN  /\ ret.kind = "ok"
              /\ ret.val.count = CountOf[ret.form.n]
              /\ ret.val.hasDebug = (t # <<>>)
              /\ ret.val.hasDebug => ret.val.debug = DebugOf(Tail(t))

C12_Witness ==
  /\ ret.op = "Search" /\ ret.kind = "ok"
  /\ ret.args = <<"O","K"," ","R","E","S","U","L","T","S"," ","2"," ","x","1"," ","x","2"," ","D","E","B","U","G"," ","q","u","e","r","y","_","t","i","m","e","=","1",".","5"," ","t","e","r","m","s","=","3">>
  /\ ret.val.total_count = 2
  /\ ret.val.results = << <<"x","1">>, <<"x","2">> >>
  /\ ret.val.hasDebug
  /\ ret.val.debug.query_time_ms = <<15, 1>> /\ ret.val.debug.terms = 3

\* the characters that make EscapeQueryString quote its argument
QuotingChars == {" ", "\t", "\n", "\r", "\"", "'"}

\* inner is s with a backslash put before every double quote and every
\* backslash, and nothing else changed
RECURSIVE EscapedAs(_, _)
EscapedAs(inner, s) ==
  IF s = <<>> THEN inner = <<>>
  ELSE IF s[1] \in {"\"", "\\"}
  THEN /\ Len(inner) >= 2
       /\ inner[1] = "\\" /\ inner[2] = s[1]
       /\ EscapedAs(SubSeq(inner, 3, Len(inner)), Tail(s))
  ELSE /\ Len(inner) >= 1
       /\ inner[1] = s[1]
       /\ EscapedAs(Tail(inner), Tail(s))

\* C13: EscapeQueryString(s) = s exactly when s holds none of space, tab, LF,
\* CR, double quote, single quote; otherwise the result is s between double
\* quotes with a backslash before every double quote and backslash of s and
\* every other character unchanged, in order.
C13_EscapeQueryString ==
  (ret.op = "EscapeQueryString" /\ ret.kind # "none")
    => LET s == ret.args
           out == ret.val
           special == \E i \in 1..Len(s) : s[i] \in QuotingChars
       IN  /\ ret.kind = "ok"
           /\ (out = s) <=> ~special
           /\ special
                => /\ Len(out) >= 2
                   /\ out[1] = "\"" /\ out[Len(out)] = "\""
                   /\ EscapedAs(SubSeq(out, 2, Len(out) - 1), s)

C13_Witness ==
  /\ ret.op = "EscapeQueryString" /\ ret.kind = "ok"
  /\ ret.args = <<"\\", " ", "\"">>
  /\ ret.val = <<"\"", "\\", "\\", " ", "\\", "\"", "\"">>

\* p occurs in s at position i
OccursAt(s, p, i) ==
  i + Len(p) - 1 <= Len(s) /\ SubSeq(s, i, i + Len(p) - 1) = p

\* position of the first occurrence of p in s, Len(s) + 1 without one
FirstAt(s, p) ==
  IF \E i \in 1..Len(s) : OccursAt(s, p, i)
  THEN CHOOSE i \in 1..Len(s) :
         OccursAt(s, p, i) /\ \A j \in 1..(i - 1) : ~OccursAt(s, p, j)
  ELSE Len(s) + 1

\* the part of a command line from its first " SORT" up to its " LIMIT"
SortPart(cmd) == SubSeq(cmd, FirstAt(cmd, <<" ","S","O","R","T">>), FirstAt(cmd, <<" ","L","I","M","I","T">>) - 1)

\* the part of a command line from its first " LIMIT" on
LimitPart(cmd) == SubSeq(cmd, FirstAt(cmd, <<" ","L","I","M","I","T">>), Len(cmd))

\* C14: the SORT clause of the Search command line is "SORT <col> DESC" or
\* "SORT <col> ASC" for a non-empty column, "SORT ASC" for an empty column
\* with sort_desc = false, and absent for an empty column with sort_desc =
\* true.
C14_SortClause ==
  (ret.op = "SearchCommand" /\ ret.kind # "none")
    => LET a == ret.args
           sort == SortPart(ret.val)
       IN  /\ (a.sort_column # <<>> /\ a.sort_desc)
                => sort = <<" ","S","O","R","T"," ">> \o a.sort_column \o <<" ","D","E","S","C">>
           /\ (a.sort_column # <<>> /\ ~a.sort_desc)
                => sort = <<" ","S","O","R","T"," ">> \o a.sort_column \o <<" ","A","S","C">>
           /\ (a.sort_column = <<>> /\ ~a.sort_desc) => sort = <<" ","S","O","R","T"," ","A","S","C">>
           /\ (a.sort_column = <<>> /\ a.sort_desc)
                => (sort = <<>> /\ FirstAt(ret.val, <<"S","O","R","T">>) > Len(ret.val))

C14_Witness ==
  /\ ret.op = "SearchCommand" /\ ret.kind = "ok"
  /\ ret.args.sort_column = <<>> /\ ret.args.sort_desc
  /\ ret.args.and_terms # <<>> /\ ret.args.limit > 0
  /\ FirstAt(ret.val, <<"S","O","R","T">>) > Len(ret.val)

\* the arguments of the example: Search(docs, hello, limit = 10, offset = 20,
\* no sort column, descending)
ExampleSearch ==
  [table |-> <<"d","o","c","s">>, query |-> <<"h","e","l","l","o">>, limit |-> 10, offset |-> 20,
   and_terms |-> <<>>, not_terms |-> <<>>, filters |-> <<>>,
   sort_column |-> <<>>, sort_desc |-> TRUE]

\* C15: the LIMIT clause of the Search command line is "LIMIT <offset>,<limit>"
\* when limit > 0 and offset > 0, "LIMIT <limit>" when limit > 0 and offset =
\* 0, absent when limit = 0; the example call builds exactly
\* "SEARCH docs hello LIMIT 20,10".
C15_LimitClause ==
  (ret.op = "SearchCommand" /\ ret.kind # "none")
    => LET a == ret.args
           lim == LimitPart(ret.val)
       IN  /\ (a.limit = 10 /\ a.offset = 20) => lim = <<" ","L","I","M","I","T"," ","2","0",",","1","0">>
           /\ (a.limit = 10 /\ a.offset = 0) => lim = <<" ","L","I","M","I","T"," ","1","0">>
           /\ (a.limit = 0)
                => (lim = <<>> /\ FirstAt(ret.val, <<"L","I","M","I","T">>) > Len(ret.val))
           /\ (a = ExampleSearch) => ret.val = <<"S","E","A","R","C","H"," ","d","o","c","s"," ","h","e","l","l","o"," ","L","I","M","I","T"," ","2","0",",","1","0">>

C15_Witness ==
  /\ ret.op = "SearchCommand" /\ ret.kind = "ok"
  /\ ret.args = ExampleSearch
  /\ ret.val = <<"S","E","A","R","C","H"," ","d","o","c","s"," ","h","e","l","l","o"," ","L","I","M","I","T"," ","2","0",",","1","0">>

\* what the term-escaping rule makes of the terms, the query texts and the
\* filter values the commands of the model are built from
EscapedText ==
  [t \in { <<"h","e","l","l","o">>, <<"a"," ","b">>, <<"x">>, <<"y"," ","z">>, <<"n">>, <<"q","\"","r">>, <<"v">>, <<"v"," ","w">> } |->
     CASE t = <<"a"," ","b">> -> <<"\"","a"," ","b","\"">>
       [] t = <<"y"," ","z">> -> <<"\"","y"," ","z","\"">>
       [] t = <<"v"," ","w">> -> <<"\"","v"," ","w","\"">>
       [] t = <<"q","\"","r">> -> <<"\"","q","\\","\"","r","\"">>
       [] OTHER -> t]

\* one clause per element of list, in the order of the list
RECURSIVE ClausesOf(_, _)
ClausesOf(word, list) ==
  IF list = <<>> THEN <<>>
  ELSE ClausesOf(word, SubSeq(list, 1, Len(list) - 1))
       \o word \o EscapedText[list[Len(list)]]

RECURSIVE FiltersOf(_)
FiltersOf(list) ==
  IF list = <<>> THEN <<>>
  ELSE LET f == list[Len(list)]
       IN  FiltersOf(SubSeq(list, 1, Len(list) - 1))
           \o <<" ","F","I","L","T","E","R"," ">> \o f[1] \o <<" ","="," ">> \o EscapedText[f[2]]

\* the command line up to and including the FILTER clauses
ClausesText(verb, a) ==
  verb \o <<" ">> \o a.table \o <<" ">> \o EscapedText[a.query]
  \o ClausesOf(<<" ","A","N","D"," ">>, a.and_terms) \o ClausesOf(<<" ","N","O","T"," ">>, a.not_terms)
  \o FiltersOf(a.filters)

\* C16: the Search command line is "SEARCH <table> <query>", then " AND
\* <term>" per and-term, " NOT <term>" per not-term, " FILTER <key> = <value>"
\* per filter, each list in the caller's order, then the SORT clause, then
\* the LIMIT clause; query, terms and filter values are escaped.
C16_SearchCommandLine ==
  (ret.op = "SearchCommand" /\ ret.kind # "none")
    => LET a == ret.args
           n == FirstAt(ret.val, <<" ","S","O","R","T">>)
           m == FirstAt(ret.val, <<" ","L","I","M","I","T">>)
           front == SubSeq(ret.val, 1, (IF n < m THEN n ELSE m) - 1)
       IN  /\ ret.kind = "ok"
           /\ front = ClausesText(<<"S","E","A","R","C","H">>, a)
           /\ ret.val = front \o SortPart(ret.val) \o LimitPart(ret.val)
           /\ (n <= Len(ret.val) /\ m <= Len(ret.val)) => n < m

C16_Witness ==
  /\ ret.op = "SearchCommand" /\ ret.kind = "ok"
  /\ ret.val = <<"S","E","A","R","C","H"," ","d","o","c","s"," ","\"","a"," ","b","\""," ","A","N","D"," ","x"," ","A","N","D"," ","\"","y"," ","z","\""," ","N","O","T"," ","\"","q","\\","\"","r","\""," ","N","O","T"," ","n"," ","F","I","L","T","E","R"," ","k","2"," ","="," ","\"","v"," ","w","\""," ","F","I","L","T","E","R"," ","k"," ","="," ","v"," ","S","O","R","T"," ","i","d"," ","A","S","C"," ","L","I","M","I","T"," ","2","0",",","1","0">>

\* the Search arguments that carry the arguments c of Count and ask for
\* neither a SORT nor a LIMIT clause
AsSearch(c) ==
  [table |-> c.table, query |-> c.query, limit |-> 0, offset |-> 0,
   and_terms |-> c.and_terms, not_terms |-> c.not_terms, filters |-> c.filters,
   sort_column |-> <<>>, sort_desc |-> TRUE]

\* C17: the Count command line is "COUNT <table> <query>" followed by exactly
\* the AND, NOT and FILTER clauses Search builds for the same table, query,
\* terms and filters, and holds neither a SORT nor a LIMIT clause.
C17_CountCommandLine ==
  (ret.op = "CountCommand" /\ ret.kind # "none")
    => LET search == SearchCommand(AsSearch(ret.args))
       IN  /\ ret.kind = "ok"
           /\ StartsWith(ret.val, <<"C","O","U","N","T"," ">>) /\ StartsWith(search, <<"S","E","A","R","C","H"," ">>)
           /\ Substr(ret.val, Len(<<"C","O","U","N","T">>)) = Substr(search, Len(<<"S","E","A","R","C","H">>))
           /\ ret.val = ClausesText(<<"C","O","U","N","T">>, ret.args)
           /\ FirstAt(ret.val, <<" ","S","O","R","T">>) > Len(ret.val)
           /\ FirstAt(ret.val, <<" ","L","I","M","I","T">>) > Len(ret.val)

C17_Witness ==
  /\ ret.op = "CountCommand" /\ ret.kind = "ok"
  /\ ret.val = <<"C","O","U","N","T"," ","d","o","c","s"," ","\"","a"," ","b","\""," ","A","N","D"," ","x"," ","N","O","T"," ","\"","q","\\","\"","r","\"">>

\* key and value of the key=value tokens of a document
DocKey == [t \in { <<"a","=","1">>, <<"a","=","2">>, <<"b","=","3">> } |-> IF t = <<"b","=","3">> THEN <<"b">> ELSE <<"a">>]
DocValue ==
  [t \in { <<"a","=","1">>, <<"a","=","2">>, <<"b","=","3">> } |->
     CASE t = <<"a","=","1">> -> <<"1">> [] t = <<"a","=","2">> -> <<"2">> [] OTHER -> <<"3">>]

\* C18: Get on "OK DOC <pk> k1=v1 ... km=vm" returns primary_key = pk and
\* fields in which every key of the response appears exactly once, in the
\* order of the keys' first occurrences, with the value of the key's last
\* occurrence.
C18_DocumentFieldsLastWins ==
  (ret.op = "Get" /\ ret.kind # "none" /\ ret.form # NoVal)
    => LET t == ret.form.tokens
           f == ret.val.fields
           pairs == { i \in 1..Len(t) : t[i] \in DOMAIN DocKey }
           first(k) == CHOOSE i \in pairs :
                         DocKey[t[i]] = k
                         /\ \A j \in pairs : DocKey[t[j]] = k => i <= j
           last(k) == CHOOSE i \in pairs :
                        DocKey[t[i]] = k
                        /\ \A j \in pairs : DocKey[t[j]] = k => j <= i
       IN  /\ ret.kind = "ok"
           /\ ret.val.primary_key = <<"p","k">>
           /\ { f[k][1] : k \in 1..Len(f) } = { DocKey[t[i]] : i \in pairs }
           /\ \A k, l \in 1..Len(f) : k # l => f[k][1] # f[l][1]
           /\ \A k \in 1..Len(f) : f[k][2] = DocValue[t[last(f[k][1])]]
           /\ \A k, l \in 1..Len(f) :
                k < l => first(f[k][1]) < first(f[l][1])

\* the response carries at most one status pair and at most one gtid pair
OnePairPerKey(t) ==
  /\ Cardinality({ i \in 1..Len(t) : StartsWith(t[i], <<"s","t","a","t","u","s","=">>) }) <= 1
  /\ Cardinality({ i \in 1..Len(t) : StartsWith(t[i], <<"g","t","i","d","=">>) }) <= 1

C20_SavedPathVerbatim ==
  (ret.op \in {"Save", "Load"} /\ ret.kind # "none" /\ ret.form # NoVal)
    => (ret.kind = "ok" /\ ret.val = ret.form.path)

C20_Witness ==
  /\ ret.op = "Save" /\ ret.kind = "ok"
  /\ ret.args = <<"O","K"," ","S","A","V","E","D"," ","/"," ","a">>
  /\ ret.val = <<"/"," ","a">>

\* ------------------------------------------------ Info, n-grams, the wire

\* the line occurs in lines
HasLine(lines, line) == \E i \in 1..Len(lines) : lines[i] = line

\* the ServerInfo the lines amount to: the known keys carry their values,
\* every other field keeps its default
InfoOf(lines) ==
  [ServerInfo0 EXCEPT
     !.version = IF HasLine(lines, <<"v","e","r","s","i","o","n",":"," ","1",".","0">>) THEN <<"1",".","0">> ELSE <<>>,
     !.uptime_seconds = IF HasLine(lines, <<"u","p","t","i","m","e","_","s","e","c","o","n","d","s",":"," ","5">>) THEN 5 ELSE 0,
     !.tables = IF HasLine(lines, <<"t","a","b","l","e","s",":"," ","a",",",",","b">>)
                THEN << <<"a">>, <<"b">> >> ELSE <<>>]

\* the response carries the key "tables" once at most
OneTablesLine(lines) ==
  Cardinality({ i \in 1..Len(lines) : lines[i] = <<"t","a","b","l","e","s",":"," ","a",",",",","b">> }) <= 1

\* C21: Info on "OK INFO" followed by lines returns the values of the
\* "key: value" lines of known keys; blank lines, lines that begin with '#'
\* or CR, lines of unknown keys change nothing; the value of "tables" is
\* split on commas, in order, empty entries dropped.
C21_InfoLines ==
  (ret.op = "Info" /\ ret.kind # "none" /\ ret.form # NoVal
     /\ OneTablesLine(ret.form.lines))
    => (ret.kind = "ok" /\ ret.val = InfoOf(ret.form.lines))

C21_Witness ==
  /\ ret.op = "Info" /\ ret.kind = "ok"
  /\ ret.args = <<"O","K"," ","I","N","F","O","\r","\n","#"," ","S","e","r","v","e","r","\r","\n","\r","\n","t","a","b","l","e","s",":"," ","a",",",",","b">>
  /\ ret.val.tables = << <<"a">>, <<"b">> >>
  /\ ret.val.version = <<>>

\* the UTF-8 bytes of the codepoints of the texts, written out
Utf8Of ==
  [cp \in Codepoints |->
     CASE cp = 97 -> <<97>>
       [] cp = 233 -> <<195, 169>>
       [] cp = 28450 -> <<230, 188, 162>>
       [] cp = 23383 -> <<229, 173, 151>>
       [] OTHER -> <<227, 129, 130>>]

\* the bytes of the codepoints cps[i] .. cps[j]
RECURSIVE BytesOf(_, _, _)
BytesOf(cps, i, j) ==
  IF i > j THEN <<>> ELSE Utf8Of[cps[i]] \o BytesOf(cps, i + 1, j)

\* C22: GenerateNgrams(t, n), n >= 1, returns max(0, codepoints(t) - n + 1)
\* n-grams, none when t has fewer than n codepoints, and the i-th is the
\* text of the codepoints i .. i + n - 1 of t.
C22_NgramWindows ==
  (ret.op = "GenerateNgrams" /\ ret.kind # "none")
    => LET cps == ret.form.cps
           n == ret.args.n
           count == IF Len(cps) - n + 1 > 0 THEN Len(cps) - n + 1 ELSE 0
       IN  /\ ret.kind = "ok"
           /\ Len(ret.val) = count
           /\ Len(cps) < n => ret.val = <<>>
           /\ \A i \in 1..count : ret.val[i] = BytesOf(cps, i, i + n - 1)

C22_Witness ==
  /\ ret.op = "GenerateNgrams" /\ ret.kind = "ok"
  /\ ret.form.cps = <<97, 28450, 233>> /\ ret.args.n = 2
  /\ ret.val = << <<97, 230, 188, 162>>, <<230, 188, 162, 195, 169>> >>

\* the CJK ideographs among the codepoints of the texts
Ideographs == {28450, 23383}

\* the positions of cps where a window of its class's size starts and stays
\* within codepoints of that class
HybridStarts(cps, ascii_size, kanji_size) ==
  { i \in 1..Len(cps) :
      LET size == IF cps[i] \in Ideographs THEN kanji_size ELSE ascii_size
      IN  /\ i + size - 1 <= Len(cps)
          /\ \A j \in i..(i + size - 1) :
               (cps[j] \in Ideographs) = (cps[i] \in Ideographs) }

\* the k-th smallest element of the set S of numbers
NthOf(S, k) == CHOOSE i \in S : Cardinality({ j \in S : j < i }) = k - 1

\* C23: GenerateHybridNgrams returns, in the order of their first codepoints,
\* exactly the windows that lie within one maximal run of CJK ideographs (of
\* kanji_size codepoints) or of other codepoints (of ascii_size codepoints);
\* no n-gram holds both a CJK ideograph and another codepoint.
C23_HybridRuns ==
  (ret.op = "GenerateHybridNgrams" /\ ret.kind # "none")
    => LET cps == ret.form.cps
           a == ret.args.ascii_ngram_size
           k == ret.args.kanji_ngram_size
           starts == HybridStarts(cps, a, k)
       IN  /\ ret.kind = "ok"
           /\ Len(ret.val) = Cardinality(starts)
           /\ \A m \in 1..Len(ret.val) :
                LET i == NthOf(starts, m)
                    size == IF cps[i] \in Ideographs THEN k ELSE a
                    gram == Utf8ToCodepoints(ret.val[m])
                IN  /\ ret.val[m] = BytesOf(cps, i, i + size - 1)
                    /\ \/ \A c \in 1..Len(gram) : gram[c] \in Ideographs
                       \/ \A c \in 1..Len(gram) : gram[c] \notin Ideographs

C23_Witness ==
  /\ ret.op = "GenerateHybridNgrams" /\ ret.kind = "ok"
  /\ ret.form.cps = <<97, 28450, 23383>>
  /\ ret.args.ascii_ngram_size = 1 /\ ret.args.kanji_ngram_size = 2
  /\ ret.val = << <<97>>, <<230, 188, 162, 229, 173, 151>> >>

\* C24: the bytes an operation sends are one line: they end with CR LF and
\* hold no CR and no LF before that, whatever the caller passed as table,
\* query, term, filter key or value, sort column, primary key, path or raw
\* command.
C24_OneLineOnTheWire ==
  (ret.op = "WireLine" /\ ret.kind # "none")
    => LET line == ret.val
       IN  /\ ret.kind = "ok"
           /\ Len(line) >= 2 /\ SubSeq(line, Len(line) - 1, Len(line)) = CRLF
           /\ \A i \in 1..(Len(line) - 2) : line[i] \notin {"\r", "\n"}

\* the calls that go through SendCommand
Sending == {"SendCommand"} \cup FacadeOps

\* C25: when SendCommand has issued its receive, the socket has taken every
\* byte of the line (the command followed by CR LF), and a send that failed is
\* followed by no receive.
C25_FullLineBeforeReceive ==
  (ret.op \in Sending /\ ret.sends > 0)
    => /\ ret.recvs <= 1
       /\ ret.recvs = 1 => ret.sent = ret.line
       /\ ret.sent # ret.line => ret.recvs = 0

\* the response is what one recv() of at most n bytes of a reply gives, its
\* trailing CR and LF removed
OneReceive(response, n) ==
  \E w \in WireReplies : \E k \in 0..Min(n, Len(w)) :
    response = StripTrailing(SubSeq(w, 1, k))

\* C26: whatever recv_buffer_size is, 0 and 1 included, a SendCommand that
\* received returns the bytes of one receive, at most recv_buffer_size - 1 of
\* them, without the CR and LF they end with; it reports a closed connection
\* only when the server closed it; and the receive writes nothing outside the
\* buffer.
C26_ReceiveWithinBuffer ==
  (ret.op = "SendCommand" /\ ret.recvs = 1)
    => LET size == config_.recv_buffer_size
           room == IF size >= 1 THEN size - 1 ELSE 0
       IN  /\ ~ret.outside
           /\ ret.kind = "ok"
                => /\ Len(ret.val) <= room
                   /\ OneReceive(ret.val, room)
                   /\ ret.val = StripTrailing(ret.val)
           /\ (ret.kind = "error" /\ ret.err = ConnectionClosed) => ~peerOpen

\* C27: a response SendCommand returns is the reply to the command of this
\* call, never the reply to, or the rest of the reply to, an earlier command.
C27_ReplyToThisCommand ==
  (ret.op \in Sending /\ ret.gotResp) => ret.lag = 0

\* C28: a SendCommand or facade operation leaves the socket as it was: after
\* one that failed on send or receive the socket is still open and
\* IsConnected() still holds, and a Connect() that follows is refused as
\* already connected.
C28_OnlyConnectAndDisconnectChangeTheConnection ==
  [][/\ ret'.op \in Sending
        => /\ sock_' = sock_ /\ openFds' = openFds
           /\ (ret'.kind = "error" /\ ret'.sends > 0)
                => (IsConnected' /\ sock_' \in openFds')
     /\ (ret.op \in Sending /\ ret.kind = "error" /\ ret.sends > 0
           /\ ret'.op = "Connect")
        => (ret'.kind = "error" /\ ret'.err = AlreadyConnected
              /\ sock_' = sock_)]_vars

C28_Witness ==
  /\ ret.op = "Search" /\ ret.kind = "error" /\ ret.err = ConnectionClosed
  /\ ret.sends = 1 /\ ret.recvs = 1
  /\ ~peerOpen /\ IsConnected /\ sock_ \in openFds

\* the calls of a client: Connect, Disconnect, SendCommand, the operations
Calls == {"Connect", "Disconnect"} \cup Sending

\* C29: a call that succeeds leaves last_error_ as it was, and the slot
\* changes only in a call that fails, to the message that call returns; so it
\* is empty until a failure writes it and keeps the message of the last such
\* failure over the successful calls that follow.
C29_SuccessKeepsLastError ==
  [][ret'.op \in Calls
       => /\ ret'.kind = "ok" => last_error_' = last_error_
          /\ last_error_' # last_error_
               => (ret'.kind = "error" /\ last_error_' = ret'.err)]_vars

C29_Witness ==
  /\ ret.op = "SendCommand" /\ ret.kind = "ok" /\ ret.val = <<"O","K"," ","C","O","U","N","T"," ","5">>
  /\ GetLastError = FailedToReceive \o strerror("EAGAIN")

====
